---- MODULE Spec2Model ----
(***************************************************************************)
(* In-train dynamics engine of pysim: the state derivative FastSimODE, the *)
(* adaptive integrator ode23simple, the driver FastSimM, the car group     *)
(* partitioner defineCarGroups and the coupler envelope tables built by    *)
(* defineCouplers / initFastSim.                                           *)
(*                                                                         *)
(* Numbers.  A Python/numpy float is modelled as a decimal floating-point  *)
(* number of Digits significant digits, a triple <<m, e, c>>:              *)
(*   <<m, e, 1>>  the finite value m * 10^e, m = 0 or                      *)
(*                10^(Digits-1) <= |m| < 10^Digits, every result rounded   *)
(*                to Digits digits, overflow to +-Inf, underflow to 0;     *)
(*   <<1, 0, 0>>  +Inf,   <<-1, 0, 0>>  -Inf,   <<0, 0, 0>>  NaN,          *)
(* with the IEEE-754 rules numpy applies to the special values.  The       *)
(* machine epsilon of this format stands for sys.float_info.epsilon.       *)
(* Vectors and tables are functions over 0..len-1, as in the source.       *)
(***************************************************************************)
EXTENDS Integers, Sequences, FiniteSets, TLC

VARIABLES
    odeArgs,    \* arguments of one FastSimODE call
    odeRet,     \* what that call returned (or that it raised)
    simArgs,    \* arguments of one FastSimM call
    pc,         \* where that call is: FastSimM, ode23simple, loop, returned, done, raised
    exc,        \* the exception that ended the call and the function it left
    odeIn,      \* arguments FastSimM passes to ode23simple
    ode,        \* ode23simple's locals: t, x, h, s1, knext, tnext, tout, xout, stats
    att,        \* locals of the latest pass through the loop body
    Yode,       \* auxiliary outputs computed by FastSimM after the run
    log,        \* the accepted and rejected passes of this call, in order, with their step sizes
    prev,       \* how the previous call with the same arguments ended
    env,        \* coupler tables: defineCouplers, initFastSim, FastSimM resampling
    grp         \* one defineCarGroups call: its arguments, locals and result

odeVars == <<odeArgs, odeRet>>
simVars == <<simArgs, pc, exc, odeIn, ode, att, Yode, log, prev>>
libVars == <<odeVars, env, grp>>
vars == <<libVars, simVars>>

----------------------------------------------------------------------------
(* Decimal floating point with the IEEE special values                     *)

Digits == 6
MantLo == 10 ^ (Digits - 1)
MantHi == 10 ^ Digits
Half == 10 ^ (Digits \div 2)
ExpMax == 40
ExpMin == -40

NaN == <<0, 0, 0>>
PInf == <<1, 0, 0>>
NInf == <<-1, 0, 0>>
Zero == <<0, 0, 1>>

IsFin(a) == a[3] = 1
IsNaN(a) == a = NaN

AbsInt(k) == IF k < 0 THEN -k ELSE k
SgnInt(k) == IF k < 0 THEN -1 ELSE IF k > 0 THEN 1 ELSE 0
Sgn(a) == SgnInt(a[1])
MinInt(j, k) == IF j < k THEN j ELSE k

\* p / q rounded to the nearest integer, q > 0, ties away from zero
RoundDiv(p, q) == SgnInt(p) * ((2 * AbsInt(p) + q) \div (2 * q))

\* number of decimal digits of u, 1 <= u < 2^31
NDigits(u) == CHOOSE d \in 1..10 : (d = 10 \/ u < 10 ^ d) /\ u >= 10 ^ (d - 1)

\* the float nearest to m * 10^e, |m| < 2^31
Norm(m, e) ==
    LET Fit(m1, e1) ==
            IF e1 > ExpMax THEN (IF m > 0 THEN PInf ELSE NInf)
            ELSE IF e1 < ExpMin THEN Zero
            ELSE <<m1, e1, 1>>
        Carry(mm, e1) ==
            IF AbsInt(mm) = MantHi THEN Fit(mm \div 10, e1 + 1) ELSE Fit(mm, e1)
        Scale(d) ==
            Carry(IF d > Digits THEN RoundDiv(m, 10 ^ (d - Digits)) ELSE m * 10 ^ (Digits - d),
                  e + (d - Digits))
    IN  IF m = 0 THEN Zero ELSE Scale(NDigits(AbsInt(m)))

\* the float of an integer literal, and of the decimal literal m * 10^e
Num(k) == Norm(k, 0)
Dec(m, e) == Norm(m, e)

Neg(a) == <<-a[1], a[2], a[3]>>
Abs(a) == <<AbsInt(a[1]), a[2], a[3]>>

\* sum of two finite floats: the larger exponent keeps three guard digits
AddFin(a, b) ==
    IF a[1] = 0 THEN b
    ELSE IF b[1] = 0 THEN a
    ELSE LET hi == IF a[2] >= b[2] THEN a ELSE b
             lo == IF a[2] >= b[2] THEN b ELSE a
             d == hi[2] - lo[2]
             g == MinInt(d, 3)
         IN  IF d - g > Digits THEN hi
             ELSE Norm(hi[1] * 10 ^ g + RoundDiv(lo[1], 10 ^ (d - g)), hi[2] - g)

Add(a, b) ==
    IF IsNaN(a) \/ IsNaN(b) THEN NaN
    ELSE IF IsFin(a) /\ IsFin(b) THEN AddFin(a, b)
    ELSE IF IsFin(a) THEN b
    ELSE IF IsFin(b) THEN a
    ELSE IF a = b THEN a ELSE NaN

Sub(a, b) == Add(a, Neg(b))

\* product of two finite floats, the mantissas split in halves of Digits/2
MulFin(a, b) ==
    LET ua == AbsInt(a[1])
        ub == AbsInt(b[1])
        a1 == ua \div Half
        a0 == ua % Half
        b1 == ub \div Half
        b0 == ub % Half
    IN  Norm(Sgn(a) * Sgn(b) * (a1 * b1 * Half + a1 * b0 + a0 * b1 + RoundDiv(a0 * b0, Half)),
             a[2] + b[2] + Digits \div 2)

Mul(a, b) ==
    IF IsNaN(a) \/ IsNaN(b) THEN NaN
    ELSE IF IsFin(a) /\ IsFin(b) THEN MulFin(a, b)
    ELSE IF Sgn(a) * Sgn(b) = 0 THEN NaN
    ELSE IF Sgn(a) * Sgn(b) > 0 THEN PInf ELSE NInf

\* quotient of two finite floats, b # 0, by long division
DivFin(a, b) ==
    LET ub == AbsInt(b[1])
        p1 == AbsInt(a[1]) * Half
        p2 == (p1 % ub) * Half
        p3 == (p2 % ub) * 10
    IN  Norm(Sgn(a) * Sgn(b) * (((p1 \div ub) * Half + p2 \div ub) * 10 + p3 \div ub),
             a[2] - b[2] - Digits - 1)

\* numpy float64 division: x/0 is +-Inf, 0/0 is NaN (a warning, no exception)
Div(a, b) ==
    IF IsNaN(a) \/ IsNaN(b) THEN NaN
    ELSE IF IsFin(a) /\ IsFin(b) THEN
        IF b[1] = 0
        THEN IF a[1] = 0 THEN NaN ELSE IF a[1] > 0 THEN PInf ELSE NInf
        ELSE IF a[1] = 0 THEN Zero ELSE DivFin(a, b)
    ELSE IF IsFin(a) THEN Zero
    ELSE IF ~IsFin(b) THEN NaN
    ELSE IF Sgn(a) * (IF b[1] < 0 THEN -1 ELSE 1) > 0 THEN PInf ELSE NInf

\* comparisons: every comparison with NaN is False
LtFin(a, b) ==
    IF Sgn(a) # Sgn(b) THEN Sgn(a) < Sgn(b)
    ELSE IF Sgn(a) = 0 THEN FALSE
    ELSE IF a[2] # b[2] THEN (IF Sgn(a) > 0 THEN a[2] < b[2] ELSE a[2] > b[2])
    ELSE a[1] < b[1]

Lt(a, b) ==
    IF IsNaN(a) \/ IsNaN(b) THEN FALSE
    ELSE IF IsFin(a) /\ IsFin(b) THEN LtFin(a, b)
    ELSE IF IsFin(a) THEN b = PInf
    ELSE IF IsFin(b) THEN a = NInf
    ELSE a = NInf /\ b = PInf

Gt(a, b) == Lt(b, a)
Le(a, b) == ~IsNaN(a) /\ ~IsNaN(b) /\ (a = b \/ Lt(a, b))
Ge(a, b) == Le(b, a)

\* math.floor of a finite float, as an integer (saturated beyond +-10^9)
FloorInt(a) ==
    IF a[2] >= 0 THEN (IF a[2] > 9 - Digits THEN Sgn(a) * 10 ^ 9 ELSE a[1] * 10 ^ a[2])
    ELSE IF -a[2] > 9 THEN (IF a[1] < 0 THEN -1 ELSE 0)
    ELSE a[1] \div (10 ^ (-a[2]))

\* int(round(a)) of Python 3 for a finite float: round half to even
RoundHalfEven(a) ==
    IF a[2] >= 0 THEN (IF a[2] > 9 - Digits THEN Sgn(a) * 10 ^ 9 ELSE a[1] * 10 ^ a[2])
    ELSE IF -a[2] > 9 THEN 0
    ELSE LET p == 10 ^ (-a[2])
             f == a[1] \div p
             r == a[1] % p
         IN  IF 2 * r < p THEN f
             ELSE IF 2 * r > p THEN f + 1
             ELSE IF f % 2 = 0 THEN f ELSE f + 1

\* len(v), v[-1], np.zeros(len), and the least and greatest of a set of indices
Size(v) == Cardinality(DOMAIN v)
Last(v) == v[Size(v) - 1]
Values(v) == {v[j] : j \in DOMAIN v}
Zeros(len) == [i \in 0..(len - 1) |-> Zero]
MinOf(S) == CHOOSE k \in S : \A j \in S : k <= j
MaxOf(S) == CHOOSE k \in S : \A j \in S : k >= j

----------------------------------------------------------------------------
(* FastSimODE: the state derivative                                        *)

\* what int(round(v)) and int(math.floor(v)) raise on a non-finite float
ConvError(v) == IF IsNaN(v) THEN "ValueError" ELSE "OverflowError"

\* (t-T[0])/dt with dt = T[1]-T[0]
RopeQuot(t, T) == Div(Sub(t, T[0]), Sub(T[1], T[0]))

\* i = min(len(T), max(0, int(round(q)))) : the rope-force row
RopeIndex(q, lenT) ==
    LET i == RoundHalfEven(q)
    IN  IF i < 0 THEN 0 ELSE IF i > lenT THEN lenT ELSE i

\* idx = (DX-x2all[0])/dx
BracketIdx(DX, x2all) == Div(Sub(DX, x2all[0]), Sub(x2all[1], x2all[0]))

\* the bounds check on idx0 and idx1; frac stays as computed before it
Bounds(idx0, frac, m) ==
    IF idx0 < 0 THEN [idx0 |-> 0, idx1 |-> 1, frac |-> frac]
    ELSE IF idx0 > m - 2 THEN [idx0 |-> m - 2, idx1 |-> m - 1, frac |-> frac]
    ELSE [idx0 |-> idx0, idx1 |-> idx0 + 1, frac |-> frac]

\* idx0 = int(math.floor(idx)), frac = idx - idx0, idx1 = idx0 + 1
Bracket(idx, m) == Bounds(FloorInt(idx), Sub(idx, Num(FloorInt(idx))), m)

\* tab[idx0,i]*(1.0-frac) + tab[idx1,i]*frac
Interp(tab, br, i) ==
    Add(Mul(tab[br.idx0][i], Sub(Num(1), br.frac)), Mul(tab[br.idx1][i], br.frac))

\* limit the coupler force state, Fmin <= F1 <= Fmax
SaturateAs(F1, lo, hi) == F1
SaturateLow(F1, lo, hi) == IF Lt(F1, lo) THEN lo ELSE F1
Saturate(F1, lo, hi) ==
    IF Lt(F1, lo) THEN lo ELSE IF Gt(F1, hi) THEN hi ELSE F1

\* e[i] = F - Frope + b*DV + c*DV*DX*F
NetForce(F, Frope, b, c, DV, DX) ==
    Add(Add(Sub(F, Frope), Mul(b, DV)), Mul(Mul(Mul(c, DV), DX), F))

\* a[0] = e[0]/M[0], a[i] = (e[i]-e[i-1])/M[i]
Accel(e, M, n) ==
    [i \in 0..(n - 1) |-> IF i = 0 THEN Div(e[0], M[0]) ELSE Div(Sub(e[i], e[i - 1]), M[i])]

\* Klocked*DV + Kawu*(F - F1), with the entry of X the caller reads as DV
F1dot(Klocked, Kawu, DV, F, F1) == Add(Mul(Klocked, DV), Mul(Kawu, Sub(F, F1)))

\* the loop over range(n-1): F1dot, DVdot = a[i+1]-a[i], DXdot = DV
FirstGroups(X, F, a, n, Klocked, Kawu) ==
    [j \in 0..(3 * n - 1) |->
        IF j < n - 1 THEN F1dot(Klocked[j], Kawu[j], X[j + n], F[j], X[j])
        ELSE IF j >= n /\ j < 2 * n - 1 THEN Sub(a[j - n + 1], a[j - n])
        ELSE IF j >= 2 * n /\ j < 3 * n - 1 THEN X[j - n]
        ELSE Zero]

\* the three assignments made for the last group, i = n-1, in source order
LastGroup(Xd, X, F, n, Klocked, Kawu) ==
    LET i == n - 1
    IN  [[[Xd EXCEPT ![i] = F1dot(Klocked[i], Kawu[i], X[2 * i], F[i], X[i])]
              EXCEPT ![2 * i] = Zero]
              EXCEPT ![3 * i] = X[2 * i]]

\* the state derivatives, once F is known for every coupler
Derivatives(X, Frope, F, n, b, c, M, Klocked, Kawu) ==
    LastGroup(FirstGroups(X, F,
                  Accel([i \in 0..(n - 1) |->
                            NetForce(F[i], Frope[i], b[i], c[i], X[i + n], X[i + 2 * n])], M, n),
                  n, Klocked, Kawu),
              X, F, n, Klocked, Kawu)

\* the return value, once the envelope is known at every coupler
Limited(X, Frope, Fmin, Fmax, F, n, b, c, M, Klocked, Kawu) ==
    [raised |-> "", Xdot |-> Derivatives(X, Frope, F, n, b, c, M, Klocked, Kawu),
     Frope |-> Frope, F |-> F, Fmin |-> Fmin, Fmax |-> Fmax]

Envelope(X, Frope, Fmin, Fmax, n, b, c, M, Klocked, Kawu) ==
    Limited(X, Frope, Fmin, Fmax, [i \in 0..(n - 1) |-> Saturate(X[i], Fmin[i], Fmax[i])],
            n, b, c, M, Klocked, Kawu)

\* the loop over the couplers, with the table positions idx of all of them
Couplers(X, Frope, idx, n, b, c, M, Fmax2all, Fmin2all, m, Klocked, Kawu) ==
    IF \E i \in 0..(n - 1) : ~IsFin(idx[i])
    THEN [raised |-> ConvError(idx[MinOf({i \in 0..(n - 1) : ~IsFin(idx[i])})])]
    ELSE Envelope(X, Frope,
                  [i \in 0..(n - 1) |-> Interp(Fmin2all, Bracket(idx[i], m), i)],
                  [i \in 0..(n - 1) |-> Interp(Fmax2all, Bracket(idx[i], m), i)],
                  n, b, c, M, Klocked, Kawu)

\* the rope-force row, then the couplers
RopeRow(q, X, T, FROPE, n, b, c, M, x2all, Fmax2all, Fmin2all, Klocked, Kawu) ==
    IF ~IsFin(q) THEN [raised |-> ConvError(q)]
    ELSE IF RopeIndex(q, Size(T)) \notin DOMAIN FROPE THEN [raised |-> "IndexError"]
    ELSE Couplers(X, FROPE[RopeIndex(q, Size(T))],
                  [i \in 0..(n - 1) |-> BracketIdx(X[i + 2 * n], x2all)],
                  n, b, c, M, Fmax2all, Fmin2all, Size(x2all), Klocked, Kawu)

\* the result is a record: raised = "" with Xdot, Frope, F, Fmin, Fmax, or
\* raised = the exception the call ends with
FastSimODE(t, X, T, FROPE, n, b, c, M, x2all, Fmax2all, Fmin2all, Klocked, Kawu) ==
    RopeRow(RopeQuot(t, T), X, T, FROPE, n, b, c, M, x2all, Fmax2all, Fmin2all, Klocked, Kawu)

----------------------------------------------------------------------------
(* ode23simple: the adaptive Bogacki-Shampine integrator                   *)

rtol == Dec(1, -2)
atol == Dec(1, -3)
threshold == Div(atol, rtol)

\* np.finfo(float).tiny and sys.float_info.epsilon of the model's format
Tiny == <<MantLo, ExpMin, 1>>
Eps == Dec(1, 1 - Digits)

\* elementwise vector arithmetic of numpy
VAdd(u, v) == [j \in DOMAIN u |-> Add(u[j], v[j])]
VSub(u, v) == [j \in DOMAIN u |-> Sub(u[j], v[j])]
VDiv(u, v) == [j \in DOMAIN u |-> Div(u[j], v[j])]
VScale(k, v) == [j \in DOMAIN v |-> Mul(k, v[j])]
VOver(v, k) == [j \in DOMAIN v |-> Div(v[j], k)]
VAbs(v) == [j \in DOMAIN v |-> Abs(v[j])]

\* np.maximum and np.clip(v, lo, None): a NaN operand gives NaN
Maximum(a, b) == IF IsNaN(a) \/ IsNaN(b) THEN NaN ELSE IF Lt(a, b) THEN b ELSE a
VMaximum(u, v) == [j \in DOMAIN u |-> Maximum(u[j], v[j])]
VClipLo(v, lo) == [j \in DOMAIN v |-> Maximum(v[j], lo)]

\* numpy.linalg.norm(v, np.inf) = max(abs(v)), NaN if any entry is NaN
NormInf(v) ==
    IF \E j \in DOMAIN v : IsNaN(v[j]) THEN NaN
    ELSE Abs(v[CHOOSE j \in DOMAIN v : \A k \in DOMAIN v : ~Lt(Abs(v[j]), Abs(v[k]))])

\* the builtins min(a, b) and max(a, b) of Python: b only if it compares so
PyMin(a, b) == IF Lt(b, a) THEN b ELSE a
PyMax(a, b) == IF Gt(b, a) THEN b ELSE a

\* a ** (1/3) for a >= 0: integer cube root of the scaled mantissa, then
\* Newton steps in the format
ICbrt(A) == CHOOSE r \in 1..465 : r * r * r <= A /\ A < (r + 1) * (r + 1) * (r + 1)
CbrtStep(Af, y) == Div(Add(Mul(Num(2), y), Div(Af, Mul(y, y))), Num(3))
Shift10(y, q) == Norm(y[1], y[2] + q)
CbrtInt(A, q) ==
    Shift10(CbrtStep(Num(A), CbrtStep(Num(A), CbrtStep(Num(A), Num(ICbrt(A))))), q)
Cbrt(a) ==
    IF ~IsFin(a) \/ a[1] = 0 THEN a
    ELSE CbrtInt(a[1] * 10 ^ (a[2] - 3 * (a[2] \div 3)), a[2] \div 3)

\* r = norm(s1 ./ max(|x|,threshold), inf) + tiny ; h = 0.8*rtol^(1/3)/r
InitialStep(x, s1) ==
    Div(Mul(Dec(8, -1), Cbrt(rtol)),
        Add(NormInf(VDiv(s1, VClipLo(VAbs(x), threshold))), Tiny))

\* hmax = 0.1*(tEnd-t0) and hmin = 16*eps*abs(t)
HMax(TOUT) == Mul(Dec(1, -1), Sub(Last(TOUT), TOUT[0]))
HMin(t) == Mul(Mul(Num(16), Eps), Abs(t))

\* if h > hmax: h = hmax ; if h < hmin: h = hmin
ClampLo(h, hmin) == IF Lt(h, hmin) THEN hmin ELSE h
ClampStep(h, hmin, hmax) == ClampLo(IF Gt(h, hmax) THEN hmax ELSE h, hmin)

\* if 1.1*h >= tnext - t: h = tnext - t, attout = True
AtOutput(h, t, tnext) == Ge(Mul(Dec(11, -1), h), Sub(tnext, t))

\* h*min(5, 0.8*(rtol/err_est)^(1/3))
NewStep(h, err) == Mul(h, PyMin(Num(5), Mul(Dec(8, -1), Cbrt(Div(rtol, err)))))

\* xnew = x + h*(2*s1 + 3*s2 + 4*s3)/9
Advance(x, h, s1, s2, s3) ==
    VAdd(x, VOver(VScale(h, VAdd(VAdd(VScale(Num(2), s1), VScale(Num(3), s2)),
                                 VScale(Num(4), s3))), Num(9)))

\* e = h*(-5*s1 + 6*s2 + 8*s3 - 9*s4)/72
ErrVec(h, s1, s2, s3, s4) ==
    VOver(VScale(h, VSub(VAdd(VAdd(VScale(Num(-5), s1), VScale(Num(6), s2)),
                              VScale(Num(8), s3)), VScale(Num(9), s4))), Num(72))

\* err_est = norm(e ./ max(max(|x|,|xnew|),threshold), inf) + tiny
ErrEst(x, xnew, e) ==
    Add(NormInf(VDiv(e, VClipLo(VMaximum(VAbs(x), VAbs(xnew)), threshold))), Tiny)

\* FastSimODE on the arguments ode23simple was given
Slope(A, t, x) ==
    FastSimODE(t, x, A.T, A.FROPE, A.n, A.b, A.c, A.M, A.x2all, A.Fmax2all, A.Fmin2all,
               A.Klocked, A.Kawu)

\* a pass through the loop body that its k-th call of FastSimODE ends by raising
Raising(raised, t, h, attout, hmax, k) ==
    [raised |-> raised, hmin |-> HMin(t), hmax |-> hmax, h |-> h, attout |-> attout,
     evals |-> k]

\* a completed pass: the step taken, the estimate and the new step size
Estimated(t, h, attout, hmax, tnew, xnew, s4, err) ==
    [raised |-> "", hmin |-> HMin(t), hmax |-> hmax, h |-> h, attout |-> attout,
     tnew |-> tnew, xnew |-> xnew, s4 |-> s4, err |-> err, evals |-> 3,
     accept |-> Le(err, rtol), hnext |-> NewStep(h, err)]

Stage4(A, t, x, s1, h, attout, s2, s3, tnew, xnew, r4) ==
    IF r4.raised # "" THEN Raising(r4.raised, t, h, attout, HMax(A.TOUT), 3)
    ELSE Estimated(t, h, attout, HMax(A.TOUT), tnew, xnew, r4.Xdot,
                   ErrEst(x, xnew, ErrVec(h, s1, s2, s3, r4.Xdot)))

NewPoint(A, t, x, s1, h, attout, s2, s3, tnew, xnew) ==
    Stage4(A, t, x, s1, h, attout, s2, s3, tnew, xnew, Slope(A, tnew, xnew))

Stage3(A, t, x, s1, h, attout, s2, r3) ==
    IF r3.raised # "" THEN Raising(r3.raised, t, h, attout, HMax(A.TOUT), 2)
    ELSE NewPoint(A, t, x, s1, h, attout, s2, r3.Xdot, Add(t, h),
                  Advance(x, h, s1, s2, r3.Xdot))

Stage2(A, t, x, s1, h, attout, r2) ==
    IF r2.raised # "" THEN Raising(r2.raised, t, h, attout, HMax(A.TOUT), 1)
    ELSE Stage3(A, t, x, s1, h, attout, r2.Xdot,
                Slope(A, Add(t, Div(Mul(Num(3), h), Num(4))),
                         VAdd(x, VScale(Div(Mul(Num(3), h), Num(4)), r2.Xdot))))

\* take a step of size h from (t, x) with the stored slope s1
TakeStep(A, t, x, s1, h, attout) ==
    Stage2(A, t, x, s1, h, attout,
           Slope(A, Add(t, Div(h, Num(2))), VAdd(x, VScale(Div(h, Num(2)), s1))))

\* the clamped step stretched or shrunk onto the next output time
LandStep(A, t, x, s1, tnext, h) ==
    TakeStep(A, t, x, s1, IF AtOutput(h, t, tnext) THEN Sub(tnext, t) ELSE h,
             AtOutput(h, t, tnext))

\* one pass through the body of the time-stepping loop from (t, x, h, s1):
\* the three stage evaluations, the error estimate and the new step size
Attempt(A, t, x, h, s1, tnext) ==
    LandStep(A, t, x, s1, tnext, ClampStep(h, HMin(t), HMax(A.TOUT)))

----------------------------------------------------------------------------
(* FastSimM: the simulation driver, and ssCouplerDisplacement              *)

\* np.concatenate([F1, DV, DX]): the state vector from its three blocks
Concat3(n, F1, DV, DX) ==
    [j \in 0..(3 * n - 1) |->
        IF j < n THEN F1[j] ELSE IF j < 2 * n THEN DV[j - n] ELSE DX[j - 2 * n]]

Column(tab, i) == [k \in DOMAIN tab |-> tab[k][i]]

\* np.floor and np.ceil of a finite float, as floats
FloorF(a) == Num(FloorInt(a))
CeilF(a) == Num(-FloorInt(Neg(a)))

\* slope*(x - xp[j]) + fp[j] on the interval j of the breakpoints
InterpAt(x, xp, fp, j) ==
    Add(Mul(Div(Sub(fp[j + 1], fp[j]), Sub(xp[j + 1], xp[j])), Sub(x, xp[j])), fp[j])

\* np.interp(x, xp, fp): linear between the breakpoints, fp[0] to the left of
\* xp[0] and fp[-1] from xp[-1] on
NpInterp(x, xp, fp) ==
    IF IsNaN(x) THEN NaN
    ELSE IF Lt(x, xp[0]) THEN fp[0]
    ELSE IF ~Lt(x, Last(xp)) THEN Last(fp)
    ELSE InterpAt(x, xp, fp, MaxOf({q \in 0..(Size(xp) - 2) : Le(xp[q], x)}))

\* np.arange(start, stop, step): ceil((stop-start)/step) values start + j*step
Arange(start, stop, step) ==
    [j \in 0..(-FloorInt(Neg(Div(Sub(stop, start), step))) - 1) |->
        Add(start, Mul(Num(j), step))]

\* x2all_uniform = np.arange(floor(x2all[0]), ceil(x2all[-1]) + 0.01, 0.01)
UniformStep == Dec(1, -2)
UniformGrid(x2all) ==
    Arange(FloorF(x2all[0]), Add(CeilF(Last(x2all)), UniformStep), UniformStep)

\* the table resampled on the uniform grid, one np.interp per coupler
Resample(xu, x2all, tab, n) ==
    [j \in DOMAIN xu |-> [i \in 0..(n - 1) |-> NpInterp(xu[j], x2all, Column(tab, i))]]

\* np.sign(np.diff(Frope[0:2, i])) < 0
RopeDecreasingAs(Frope, i) == FALSE
RopeDecreasing(Frope, i) == Lt(Sub(Frope[1][i], Frope[0][i]), Zero)

\* the table column made strictly increasing: col + arange(1, m+1)*e
Perturbed(col, e) == [k \in DOMAIN col |-> Add(col[k], Mul(Num(k + 1), e))]

\* x[i]: Frope[0,i] looked up in the perturbed Fmin column when the rope force
\* decreases, in the perturbed Fmax column otherwise; e = max|Fmax[:,i]|*eps*2
ssCouplerDisplacement(x2all, Fmin2all, Fmax2all, Frope) ==
    [i \in DOMAIN Fmax2all[0] |->
        NpInterp(Frope[0][i],
                 Perturbed(IF RopeDecreasing(Frope, i) THEN Column(Fmin2all, i)
                                                       ELSE Column(Fmax2all, i),
                           Mul(Mul(NormInf(Column(Fmax2all, i)), Eps), Num(2))),
                 x2all)]

\* X0[np.isnan(X0)] = 0
NanToZero(v) == [j \in DOMAIN v |-> IF IsNaN(v[j]) THEN Zero ELSE v[j]]

LowerAs(str) == "zero"

\* str.lower() on the option strings the checks use
Lower(str) ==
    CASE str = "Zero" -> "zero"
      [] str = "Steady-State" -> "steady-state"
      [] OTHER -> str

\* the initial state chosen from X0: a record [raised, X0]
InitialState(A) ==
    IF A.X0.kind = "str" THEN
        IF Lower(A.X0.s) = "zero" THEN [raised |-> "", X0 |-> Zeros(3 * A.n)]
        ELSE IF Lower(A.X0.s) = "steady-state" THEN
            [raised |-> "",
             X0 |-> NanToZero(Concat3(A.n, A.Frope[0], VScale(Zero, A.Frope[0]),
                        ssCouplerDisplacement(A.x2all, A.Fmin2all, A.Fmax2all, A.Frope)))]
        ELSE [raised |-> "ValueError"]
    ELSE IF Size(A.X0.v) = 1 THEN
        [raised |-> "", X0 |-> [j \in 0..(3 * A.n - 1) |-> Add(Zero, A.X0.v[0])]]
    ELSE [raised |-> "", X0 |-> A.X0.v]

\* k1 = first index with T >= tstart, k2 = last index with T <= tend
K1Set(A) == {k \in DOMAIN A.T : Ge(A.T[k], A.tstart)}
K2Set(A) == {k \in DOMAIN A.T : Le(A.T[k], A.tend)}

\* the arguments of the ode23simple call: T[k1:k2+1], T, X0, Frope, ... with
\* the envelope resampled on the uniform grid xu
OdeArgs(A, xu, X0, k1, k2) ==
    [raised |-> "",
     TOUT |-> [k \in 0..(k2 - k1) |-> A.T[k + k1]],
     T |-> A.T, x0 |-> X0, FROPE |-> A.Frope, n |-> A.n,
     b |-> A.b, c |-> A.c, M |-> A.M, x2all |-> xu,
     Fmax2all |-> Resample(xu, A.x2all, A.Fmax2all, A.n),
     Fmin2all |-> Resample(xu, A.x2all, A.Fmin2all, A.n),
     Klocked |-> A.Klocked, Kawu |-> A.Kawu]

\* lines 36-87 of FastSimM: everything up to the call of ode23simple
Setup(A) ==
    IF K1Set(A) = {} \/ K2Set(A) = {} THEN [raised |-> "IndexError"]
    ELSE IF InitialState(A).raised # "" THEN [raised |-> InitialState(A).raised]
    ELSE OdeArgs(A, UniformGrid(A.x2all), InitialState(A).X0,
                 MinOf(K1Set(A)), MaxOf(K2Set(A)))

----------------------------------------------------------------------------
(* Inputs of the bounded checks                                            *)

MaxN == 3            \* largest number of coupler groups
MaxAttempts == 60    \* most passes through the stepping loop in one call

\* a Python list / numpy vector from a TLA+ sequence: indices 0..len-1
Vec(sq) == [i \in 0..(Len(sq) - 1) |-> sq[i + 1]]
VecOf(len, v) == [i \in 0..(len - 1) |-> v]

\* the vectors of length len that alternate between two values of S
Alternating(len, S) == {[i \in 0..(len - 1) |-> IF i % 2 = 0 THEN u ELSE w] : u, w \in S}

None == [raised |-> "none"]

\* a sloped envelope on the uniform grid x = -1, 0, 1 (the same for every group)
GridX == Vec(<<Num(-1), Zero, Num(1)>>)
SlopeMax(n) == Vec(<<VecOf(n, Num(-20)), VecOf(n, Num(5)), VecOf(n, Num(30))>>)
SlopeMin(n) == Vec(<<VecOf(n, Num(-30)), VecOf(n, Num(-5)), VecOf(n, Num(20))>>)

TimeGrid == Vec(<<Zero, Num(1), Num(2)>>)
RopeRamp(n) == Vec(<<VecOf(n, Num(3)), VecOf(n, Num(4)), VecOf(n, Num(6))>>)

F1Vals == {Zero, Num(5), Num(50)}
DVVals == {Num(-1), Zero, Num(2)}
DXVals == {Dec(-5, -1), Dec(25, -2)}

\* times before the first sample, on samples, and after the last sample of T
RopeTimes == {Num(-1), Zero, Num(1), Dec(25, -1), Num(3)}

ODEStates(n) ==
    {Concat3(n, f, v, d) : f \in Alternating(n, F1Vals), v \in Alternating(n, DVVals),
                           d \in Alternating(n, DXVals)}

\* displacements on the grid points and beyond both ends of the grid
EdgeVals == {Dec(-15, -1), Num(-1), Zero, Num(1), Dec(15, -1)}
EdgeStates(n) ==
    {Concat3(n, VecOf(n, Num(5)), v, d) : v \in {VecOf(n, Zero), VecOf(n, Num(2))},
                                          d \in Alternating(n, EdgeVals)}

\* malformed states: a NaN or an infinite displacement in some group
Malformed(n) ==
    {Concat3(n, Zeros(n), Zeros(n), d) : d \in Alternating(n, {NaN, PInf, NInf, Dec(25, -2)})}
        \ {Concat3(n, Zeros(n), Zeros(n), VecOf(n, Dec(25, -2)))}

ODECall(n, t, X) ==
    [n |-> n, t |-> t, X |-> X, T |-> TimeGrid, FROPE |-> RopeRamp(n),
     b |-> VecOf(n, Num(2)), c |-> VecOf(n, Dec(1, -1)), M |-> VecOf(n, Num(10)),
     x2all |-> GridX, Fmax2all |-> SlopeMax(n), Fmin2all |-> SlopeMin(n),
     Klocked |-> VecOf(n, Num(4)), Kawu |-> VecOf(n, Num(1))]

\* force states that are not numbers, and an envelope whose lower bound lies
\* above its upper bound (a dead zone of an EOCC table)
Undefined(n) ==
    {Concat3(n, f, Zeros(n), VecOf(n, Dec(25, -2))) : f \in Alternating(n, {NaN, PInf, NInf, Num(5)})}
Inverted(n, X) ==
    [ODECall(n, Zero, X) EXCEPT !.Fmax2all = SlopeMin(n), !.Fmin2all = SlopeMax(n)]
Between(n) ==
    {Concat3(n, f, Zeros(n), VecOf(n, Dec(25, -2))) : f \in Alternating(n, F1Vals)}

ODEInputs ==
    UNION {
        {ODECall(n, t, X) :
            t \in RopeTimes, X \in ODEStates(n)} : n \in 1..MaxN}
    \cup UNION {{ODECall(n, Zero, X) : X \in Malformed(n)} : n \in 1..MaxN}
    \cup UNION {{ODECall(n, Num(1), X) : X \in EdgeStates(n)} : n \in 1..MaxN}
    \cup UNION {{ODECall(n, Zero, X) : X \in Undefined(n)} : n \in 1..MaxN}
    \cup UNION {{Inverted(n, X) : X \in Between(n)} : n \in 1..MaxN}

\* the force-balanced scenario: n = 2, M = [10,10], b = c = 0, envelope flat
\* at 1000 over x in [-1, 1], constant rope force [1000, 1000], X0 = 'zero'
FlatX == Vec(<<Num(-1), Num(1)>>)
Flat(n, v) == Vec(<<VecOf(n, v), VecOf(n, v)>>)
TenSeconds == Vec(<<Zero, Num(5), Num(10)>>)
Str(s) == [kind |-> "str", s |-> s, v |-> Zeros(0)]

Balanced(kawu) ==
    [T |-> TenSeconds, Frope |-> [k \in 0..2 |-> VecOf(2, Num(1000))],
     tstart |-> Zero, tend |-> Num(10), n |-> 2,
     b |-> VecOf(2, Zero), c |-> VecOf(2, Zero), M |-> VecOf(2, Num(10)),
     x2all |-> FlatX, Fmax2all |-> Flat(2, Num(1000)), Fmin2all |-> Flat(2, Num(1000)),
     Klocked |-> VecOf(2, Num(100)), Kawu |-> VecOf(2, kawu), X0 |-> Str("zero")]

\* the same train started at t = 5 with a stiff anti-windup gain, with an
\* anti-windup gain large enough to overflow, and on a time grid finer than
\* the smallest step at t = 1000
Stiff == [Balanced(Dec(1, 5)) EXCEPT !.tstart = Num(5)]
Overflowing == [Balanced(Dec(1, 30)) EXCEPT !.tstart = Num(5)]
LateFine ==
    [Balanced(Num(1)) EXCEPT !.T = Vec(<<Num(1000), Dec(100001, -2), Dec(100002, -2)>>),
                             !.tstart = Num(1000), !.tend = Dec(100002, -2)]
\* the same grid with a window that ends at its second sample
LateFineEnd == [LateFine EXCEPT !.tend = Dec(100001, -2)]

\* rope forces that start on a tabulated value of the sloped envelope and
\* rise (Fmax side) or fall (Fmin side)
RopeUp(n) == Vec(<<VecOf(n, Num(5)), VecOf(n, Num(6)), VecOf(n, Num(8))>>)
RopeDown(n) == Vec(<<VecOf(n, Num(20)), VecOf(n, Num(18)), VecOf(n, Num(15))>>)

Sloped(n, Frope, X0) ==
    [T |-> TimeGrid, Frope |-> Frope, tstart |-> Zero, tend |-> Num(2), n |-> n,
     b |-> VecOf(n, Num(2)), c |-> VecOf(n, Dec(1, -1)), M |-> VecOf(n, Num(10)),
     x2all |-> GridX, Fmax2all |-> SlopeMax(n), Fmin2all |-> SlopeMin(n),
     Klocked |-> VecOf(n, Num(4)), Kawu |-> VecOf(n, Num(1)), X0 |-> X0]

\* two groups whose rope forces start on tabulated envelope values: group 0
\* rises from Fmax[j], group 1 falls from Fmin[k]; the window is the sample t = 0
RopeMixed(j, k) ==
    Vec(<<Vec(<<SlopeMax(1)[j][0], SlopeMin(1)[k][0]>>),
          Vec(<<Add(SlopeMax(1)[j][0], Num(1)), Sub(SlopeMin(1)[k][0], Num(1))>>),
          Vec(<<Add(SlopeMax(1)[j][0], Num(1)), Sub(SlopeMin(1)[k][0], Num(1))>>)>>)
Steady(j, k) == [Sloped(2, RopeMixed(j, k), Str("steady-state")) EXCEPT !.tend = Zero]

\* numeric initial states: a scalar, a vector with an infinite relative
\* velocity, a vector with a NaN displacement
InfDV(n) == [kind |-> "num", s |-> "", v |-> [Zeros(3 * n) EXCEPT ![n] = PInf]]
NaNDX(n) == [kind |-> "num", s |-> "", v |-> [Zeros(3 * n) EXCEPT ![2 * n] = NaN]]
Scalar(v) == [kind |-> "num", s |-> "", v |-> VecOf(1, v)]

\* the balanced train started at rest on its equilibrium (every slope is
\* zero) on a two-sample time grid that starts at -6 and ends just after 0
AtEquilibrium ==
    [kind |-> "num", s |-> "",
     v |-> Vec(<<Num(1000), Num(1000), Zero, Zero, Zero, Zero>>)]
Crossing(t1) ==
    [Balanced(Num(1)) EXCEPT !.T = Vec(<<Num(-6), t1>>),
                             !.Frope = [k \in 0..1 |-> VecOf(2, Num(1000))],
                             !.tstart = Num(-6), !.tend = t1, !.X0 = AtEquilibrium]

\* one coupler in steady state whose first rope-force sample is v
RopeFrom(v) == Vec(<<VecOf(1, v), VecOf(1, Num(6)), VecOf(1, Num(8))>>)
Unbounded(v) == [Sloped(1, RopeFrom(v), Str("steady-state")) EXCEPT !.tend = Zero]

SimInputs ==
    {Balanced(k) : k \in {Num(1), Num(5)}}
    \cup {Stiff, Overflowing, LateFine, LateFineEnd}
    \cup {Crossing(Dec(123456, -7)), Crossing(Dec(333333, -7))}
    \cup {Sloped(n, RopeUp(n), Str(s)) : n \in 1..MaxN, s \in {"zero", "steady-state"}}
    \cup {Steady(j, k) : j, k \in DOMAIN GridX}
    \cup {Sloped(2, RopeDown(2), Str("Steady-State")), Sloped(1, RopeUp(1), Str("foo")),
          Sloped(2, RopeUp(2), Str("steady state")), Sloped(1, RopeDown(1), Str("")),
          Sloped(1, RopeUp(1), Scalar(Dec(1, -1))), Sloped(MaxN, RopeUp(MaxN), InfDV(MaxN)),
          Sloped(1, RopeUp(1), NaNDX(1))}
    \cup {Unbounded(v) : v \in {NaN, PInf, NInf}}

CallODE(A) ==
    FastSimODE(A.t, A.X, A.T, A.FROPE, A.n, A.b, A.c, A.M, A.x2all, A.Fmax2all,
               A.Fmin2all, A.Klocked, A.Kawu)

----------------------------------------------------------------------------
(* Spec: one call of FastSimM, the integrator making one attempt per step  *)

NoAtt == [kind |-> "none"]
NoExc == [type |-> "", in |-> ""]
Exc(type, in) == [type |-> type, in |-> in]

SimIdle ==
    /\ simArgs = None /\ pc = "idle" /\ exc = NoExc /\ odeIn = None
    /\ ode = None /\ att = NoAtt /\ Yode = <<>> /\ log = <<>> /\ prev = None

ODEIdle == odeArgs = None /\ odeRet = None
LibIdle == env = None /\ grp = None

\* the locals of a call that has just been entered
Entered ==
    /\ pc = "FastSimM" /\ exc = NoExc /\ odeIn = None
    /\ ode = None /\ att = NoAtt /\ Yode = <<>> /\ log = <<>>

Init ==
    /\ simArgs \in SimInputs
    /\ Entered
    /\ prev = None
    /\ ODEIdle /\ LibIdle

\* FastSimM lines 36-87: resample the envelope, find k1 and k2, choose X0
Driver_Setup ==
    /\ pc = "FastSimM"
    /\ \E r \in {Setup(simArgs)} :
          IF r.raised # ""
          THEN pc' = "raised" /\ exc' = Exc(r.raised, "FastSimM") /\ UNCHANGED odeIn
          ELSE pc' = "ode23simple" /\ odeIn' = r /\ UNCHANGED exc
    /\ UNCHANGED <<libVars, simArgs, ode, att, Yode, log, prev>>

\* stats as lines 48-59 leave it; a stats object that outlived the previous
\* call and kept its counters would be the hidden state of FreshStatsAs
FreshStatsAs(h) ==
    [err |-> 0, hmax |-> h, hmin |-> h,
     nsteps |-> IF prev = None THEN 0 ELSE prev.ode.stats.nsteps,
     nfailed |-> IF prev = None THEN 0 ELSE prev.ode.stats.nfailed]
FreshStats(h) == [err |-> 0, hmax |-> h, hmin |-> h, nsteps |-> 0, nfailed |-> 0]

\* the locals of ode23simple when the time-stepping loop is entered
Started(A, s1, h) ==
    [t |-> A.TOUT[0], x |-> A.x0, tout |-> A.TOUT,
     xout |-> [k \in DOMAIN A.TOUT |-> IF k = 0 THEN A.x0 ELSE Zeros(Size(A.x0))],
     s1 |-> s1, h |-> h,
     stats |-> FreshStats(h),
     knext |-> 1, tnext |-> A.TOUT[1]]

\* ode23simple lines 38-63: initialise, first slope, initial step size
Ode_Init ==
    /\ pc = "ode23simple"
    /\ IF Size(odeIn.TOUT) = 0
       THEN pc' = "raised" /\ exc' = Exc("IndexError", "ode23simple") /\ UNCHANGED ode
       ELSE \E r1 \in {Slope(odeIn, odeIn.TOUT[0], odeIn.x0)} :
               IF r1.raised # ""
               THEN pc' = "raised" /\ exc' = Exc(r1.raised, "ode23simple") /\ UNCHANGED ode
               ELSE IF Size(odeIn.TOUT) < 2
               THEN pc' = "raised" /\ exc' = Exc("IndexError", "ode23simple") /\ UNCHANGED ode
               ELSE /\ pc' = "loop"
                    /\ ode' = Started(odeIn, r1.Xdot, InitialStep(odeIn.x0, r1.Xdot))
                    /\ UNCHANGED exc
    /\ UNCHANGED <<libVars, simArgs, odeIn, att, Yode, log, prev>>

tEnd == Last(odeIn.TOUT)

Try == Attempt(odeIn, ode.t, ode.x, ode.h, ode.s1, ode.tnext)

\* the loop is entered again: t < tEnd (and the bound on the passes)
Stepping ==
    /\ pc = "loop" /\ Lt(ode.t, tEnd)
    /\ ode.stats.nsteps + ode.stats.nfailed < MaxAttempts

\* the end of the loop body, after the accept/reject branch: the new step
\* size, and the early exit with stats.err = 1 when it is too small
AfterBranch(o, a) ==
    IF Le(a.hnext, a.hmin)
    THEN [o EXCEPT !.h = a.hnext, !.stats.err = 1]
    ELSE [o EXCEPT !.h = a.hnext]

\* a pass of the loop as the log keeps it: its branch and its step size
Pass(kind, h) == [pass |-> kind, h |-> h]

Locals(a, kind) ==
    [kind |-> kind, h |-> a.h, hmin |-> a.hmin, hmax |-> a.hmax, attout |-> a.attout,
     err |-> a.err, hnext |-> a.hnext, s4 |-> a.s4, evals |-> a.evals]

\* knext = knext+1, capped at nout = np.size(TOUT)-1
NextK(k, TOUT) == IF k + 1 > Size(TOUT) - 1 THEN Size(TOUT) - 1 ELSE k + 1

\* an accept branch that would leave the stored slope of the old point
AcceptedAs(o, a, TOUT) ==
    [o EXCEPT !.t = a.tnew, !.x = a.xnew,
              !.stats.hmax = PyMax(o.stats.hmax, a.h),
              !.stats.hmin = PyMin(o.stats.hmin, a.h),
              !.stats.nsteps = o.stats.nsteps + 1,
              !.tout[o.knext] = IF a.attout THEN a.tnew ELSE @,
              !.xout[o.knext] = IF a.attout THEN a.xnew ELSE @,
              !.knext = IF a.attout THEN NextK(@, TOUT) ELSE @,
              !.tnext = IF a.attout THEN TOUT[NextK(o.knext, TOUT)] ELSE @]

\* the accept branch: advance, record an output row when landing on one
Accepted(o, a, TOUT) ==
    [o EXCEPT !.t = a.tnew, !.x = a.xnew, !.s1 = a.s4,
              !.stats.hmax = PyMax(o.stats.hmax, a.h),
              !.stats.hmin = PyMin(o.stats.hmin, a.h),
              !.stats.nsteps = o.stats.nsteps + 1,
              !.tout[o.knext] = IF a.attout THEN a.tnew ELSE @,
              !.xout[o.knext] = IF a.attout THEN a.xnew ELSE @,
              !.knext = IF a.attout THEN NextK(@, TOUT) ELSE @,
              !.tnext = IF a.attout THEN TOUT[NextK(o.knext, TOUT)] ELSE @]

\* one pass of the loop with err_est <= rtol: the step is accepted
Ode_Accept ==
    /\ Stepping
    /\ \E a \in {Try} :
          /\ a.raised = "" /\ a.accept
          /\ ode' = AfterBranch(Accepted(ode, a, odeIn.TOUT), a)
          /\ pc' = IF Le(a.hnext, a.hmin) THEN "returned" ELSE "loop"
          /\ att' = Locals(a, "accepted")
          /\ log' = Append(log, Pass("accepted", a.h))
    /\ UNCHANGED <<libVars, simArgs, odeIn, exc, Yode, prev>>

\* one pass of the loop with the error estimate not within the tolerance
Ode_Reject ==
    /\ Stepping
    /\ \E a \in {Try} :
          /\ a.raised = "" /\ ~a.accept
          /\ ode' = AfterBranch([ode EXCEPT !.stats.nfailed = @ + 1], a)
          /\ pc' = IF Le(a.hnext, a.hmin) THEN "returned" ELSE "loop"
          /\ att' = Locals(a, "rejected")
          /\ log' = Append(log, Pass("rejected", a.h))
    /\ UNCHANGED <<libVars, simArgs, odeIn, exc, Yode, prev>>

\* a stage evaluation raises: the exception leaves ode23simple and FastSimM
Ode_Raise ==
    /\ Stepping
    /\ \E a \in {Try} :
          /\ a.raised # ""
          /\ pc' = "raised" /\ exc' = Exc(a.raised, "ode23simple")
          /\ att' = [kind |-> "raised", h |-> a.h, hmin |-> a.hmin, hmax |-> a.hmax,
                     attout |-> a.attout, evals |-> a.evals]
    /\ UNCHANGED <<libVars, simArgs, odeIn, ode, Yode, log, prev>>

\* the loop condition t < tEnd is false: return tout, xout, stats
Ode_Exit ==
    /\ pc = "loop" /\ ~Lt(ode.t, tEnd)
    /\ pc' = "returned"
    /\ UNCHANGED <<libVars, simArgs, odeIn, exc, ode, att, Yode, log, prev>>

\* FastSimM lines 89-101: FastSimODE at every returned row gives Yode
Driver_Post ==
    /\ pc = "returned"
    /\ \E rows \in {[k \in DOMAIN ode.tout |-> Slope(odeIn, ode.tout[k], ode.xout[k])]} :
          IF \E k \in DOMAIN rows : rows[k].raised # ""
          THEN /\ pc' = "raised"
               /\ exc' = Exc(rows[MinOf({k \in DOMAIN rows : rows[k].raised # ""})].raised,
                             "FastSimM")
               /\ UNCHANGED Yode
          ELSE /\ pc' = "done"
               /\ Yode' = [k \in DOMAIN rows |->
                              [F |-> rows[k].F, Fmin |-> rows[k].Fmin,
                               Fmax |-> rows[k].Fmax, Xdot |-> rows[k].Xdot]]
               /\ UNCHANGED exc
    /\ UNCHANGED <<libVars, simArgs, odeIn, ode, att, log, prev>>

\* how a finished call ended: what it returned or raised, and its steps
Outcome == [pc |-> pc, exc |-> exc, ode |-> ode, Yode |-> Yode, log |-> log]

\* the caller calls FastSimM once more with the same arguments
Driver_Again ==
    /\ pc \in {"done", "raised"}
    /\ prev = None
    /\ prev' = Outcome
    /\ pc' = "FastSimM" /\ exc' = NoExc /\ odeIn' = None
    /\ ode' = None /\ att' = NoAtt /\ Yode' = <<>> /\ log' = <<>>
    /\ UNCHANGED <<libVars, simArgs>>

Next ==
    \/ Driver_Setup
    \/ Ode_Init
    \/ Ode_Accept
    \/ Ode_Reject
    \/ Ode_Raise
    \/ Ode_Exit
    \/ Driver_Post
    \/ Driver_Again

Spec == Init /\ [][Next]_vars

----------------------------------------------------------------------------
(* SpecODE: one call of FastSimODE on an input drawn from ODEInputs        *)

InitODE ==
    /\ odeArgs \in ODEInputs
    /\ odeRet = None
    /\ SimIdle /\ LibIdle

EvalODE ==
    /\ odeRet = None
    /\ odeRet' = CallODE(odeArgs)
    /\ UNCHANGED <<odeArgs, simVars, env, grp>>

NextODE == EvalODE

SpecODE == InitODE /\ [][NextODE]_vars

Returned == odeRet # None /\ odeRet.raised = ""

\* C3: for every n >= 1 and every state X the derivative of the last
\* group's relative velocity, Xdot[(n-1)+n], is exactly zero.
C3_LastGroupDVdotZero ==
    Returned => odeRet.Xdot[(odeArgs.n - 1) + odeArgs.n] = Zero

\* C4: for every n >= 1 and every group i the displacement derivative equals
\* the group's relative velocity, Xdot[i+2n] = X[i+n].
C4_DXdotIsDV ==
    Returned =>
        \A i \in 0..(odeArgs.n - 1) :
            odeRet.Xdot[i + 2 * odeArgs.n] = odeArgs.X[i + odeArgs.n]


\* ---------------------------------------------------------------------
\* Properties of ode23simple, checked under Spec
\* ---------------------------------------------------------------------

\* ode23simple has returned with the failure flag set
Failed == pc = "returned" /\ ode.stats.err = 1

C2_NeverRaises == ~(pc = "raised" /\ exc.in = "ode23simple")

\* ---------------------------------------------------------------------
\* The steady-state initial state of FastSimM
\* ---------------------------------------------------------------------

\* FastSimM has built X0 from the option 'steady-state'
SteadyStart ==
    /\ pc = "ode23simple"
    /\ simArgs.X0.kind = "str" /\ simArgs.X0.s \in {"steady-state", "Steady-State"}

\* the envelope column group i is on: Fmin when its rope force falls over
\* the first two samples, Fmax when it rises
Falling(i) == Lt(simArgs.Frope[1][i], simArgs.Frope[0][i])
Rising(i) == Gt(simArgs.Frope[1][i], simArgs.Frope[0][i])
OnColumn(i) ==
    IF Falling(i) THEN Column(simArgs.Fmin2all, i) ELSE Column(simArgs.Fmax2all, i)

\* the rope force of group i starts on a tabulated value of that column
OnTable(i) == (Falling(i) \/ Rising(i)) /\ simArgs.Frope[0][i] \in Values(OnColumn(i))

\* how far the envelope at the initial displacement of group i is from the
\* initial rope force
Mismatch(i) ==
    Abs(Sub(NpInterp(odeIn.x0[i + 2 * simArgs.n], simArgs.x2all, OnColumn(i)),
            simArgs.Frope[0][i]))

\* the perturbation the lookup adds to the last table row: (m + 1) * e with
\* e = 2 * eps * max|Fmax[:, i]|
Perturbation(i) ==
    Mul(Num(Size(simArgs.x2all) + 1),
        Mul(Mul(NormInf(Column(simArgs.Fmax2all, i)), Eps), Num(2)))

\* C6 (as amended): with X0 = 'steady-state' the initial state has F1 equal to
\* the first rope-force sample, DV = 0 and, for a rope force that starts on a
\* tabulated envelope value, a displacement x at which Fmax (rising rope
\* force) or Fmin (falling) is within (m + 1) * e of that force
C6_SteadyStateInvertsWithin ==
    SteadyStart =>
        \A i \in 0..(simArgs.n - 1) :
            OnTable(i) =>
                /\ odeIn.x0[i] = simArgs.Frope[0][i]
                /\ odeIn.x0[i + simArgs.n] = Zero
                /\ Le(Mismatch(i), Perturbation(i))

\* C6 (as stated): ... a displacement x with Fmax(x) = Frope[0,i] when the
\* rope force is increasing and Fmin(x) = Frope[0,i] when it is decreasing
C6_SteadyStateInverts ==
    SteadyStart =>
        \A i \in 0..(simArgs.n - 1) :
            OnTable(i) =>
                /\ odeIn.x0[i] = simArgs.Frope[0][i]
                /\ odeIn.x0[i + simArgs.n] = Zero
                /\ Mismatch(i) = Zero

\* a steady-state start with a rising and a falling group, both on the table
C6_RisingAndFalling ==
    /\ SteadyStart
    /\ \E i, j \in 0..(simArgs.n - 1) : Rising(i) /\ OnTable(i) /\ Falling(j) /\ OnTable(j)

\* ---------------------------------------------------------------------
\* Two calls of FastSimM with the same arguments
\* ---------------------------------------------------------------------

ZeroStart == simArgs.X0.kind = "str" /\ simArgs.X0.s = "zero"
Finished == pc \in {"done", "raised"}
IsPrefix(s, t) == Len(s) <= Len(t) /\ SubSeq(t, 1, Len(s)) = s

IsBalanced ==
    /\ simArgs.n = 2 /\ ZeroStart
    /\ simArgs.b = VecOf(2, Zero) /\ simArgs.c = VecOf(2, Zero)
    /\ \A r \in DOMAIN simArgs.x2all :
          simArgs.Fmax2all[r] = VecOf(2, Num(1000)) /\ simArgs.Fmin2all[r] = VecOf(2, Num(1000))
    /\ \A k \in DOMAIN simArgs.Frope : simArgs.Frope[k] = VecOf(2, Num(1000))

\* at the integrator's current state DV = DX = 0 and the realized coupler
\* force of both groups is 1000
AtRest ==
    \A i \in 0..1 :
        /\ ode.x[i + 2] = Zero /\ ode.x[i + 4] = Zero
        /\ Slope(odeIn, ode.t, ode.x).F[i] = Num(1000)

\* this step is an accepted step of the integrator
AcceptedStep == ode # None /\ ode' # None /\ ode'.stats.nsteps = ode.stats.nsteps + 1

\* F1 of group i moves toward 1000 and does not cross it
Toward(i) ==
    /\ Le(ode.x[i], Num(1000)) => Le(ode.x[i], ode'.x[i]) /\ Le(ode'.x[i], Num(1000))
    /\ Ge(ode.x[i], Num(1000)) => Ge(ode.x[i], ode'.x[i]) /\ Ge(ode'.x[i], Num(1000))

\* the step is small for the anti-windup gain: Kawu * h <= 1.5
Gentle(i, h) == Le(Mul(simArgs.Kawu[i], h), Dec(15, -1))

\* C8 (as amended): in the force-balanced scenario every state of the
\* integrator has DV = DX = 0 and realized force 1000, and every accepted
\* step with Kawu * h <= 1.5 moves F1 toward 1000 without crossing it
C8_BalancedGentleSteps ==
    /\ [](IsBalanced /\ ode # None => AtRest)
    /\ [][IsBalanced /\ AcceptedStep =>
            \A i \in 0..1 : Gentle(i, att'.h) => Toward(i)]_vars

\* C8 (as stated): ... and F1 stays at or moves monotonically toward 1000
\* without overshooting, at every accepted step
C8_BalancedMonotone ==
    /\ [](IsBalanced /\ ode # None => AtRest)
    /\ [][IsBalanced /\ AcceptedStep =>
            \A i \in 0..1 : Le(ode.x[i], ode'.x[i]) /\ Le(ode'.x[i], Num(1000))]_vars

\* the balanced run has accepted a gentle step that raised F1 from 0
C8_GentleStepTaken ==
    /\ IsBalanced /\ ode # None /\ att.kind = "accepted"
    /\ Gentle(0, att.h) /\ Gt(ode.x[0], Zero)

----------------------------------------------------------------------------
(* defineCouplers and the envelope tables of initFastSim                   *)

\* np.unique of a set of numbers: the distinct values in ascending order
Unique(S) ==
    [k \in 0..(Cardinality(S) - 1) |->
        CHOOSE a \in S : Cardinality({b \in S : Lt(b, a)}) = k]

\* scipy interp1d(xs, ys, kind='linear', fill_value='extrapolate')(x) for
\* ascending xs: searchsorted (left) clipped to 1..len-1, then
\* slope*(x - x_lo) + y_lo
SearchSorted(xs, x) == Cardinality({j \in DOMAIN xs : Lt(xs[j], x)})
Linear(xs, ys, x, hi) ==
    Add(Mul(Div(Sub(ys[hi], ys[hi - 1]), Sub(xs[hi], xs[hi - 1])),
            Sub(x, xs[hi - 1])), ys[hi - 1])
Interp1d(xs, ys, x) ==
    Linear(xs, ys, x, MinInt(Size(xs) - 1, -MinInt(-1, -SearchSorted(xs, x))))

\* the standard draft gear (preload = 0)
Standard ==
    [ok |-> TRUE, Klocked |-> Div(Div(Sub(Num(103), Num(35)), Sub(Dec(15, -1), Dec(144, -2))), Num(4)),
     xmax |-> Vec(<<Zero, Dec(47, -2), Dec(74, -2), Dec(195, -2), Dec(494, -2)>>),
     Fmax |-> Vec(<<Zero, Zero, Num(27), Num(153), Num(304)>>),
     xmin |-> Vec(<<Zero, Dec(47, -2), Dec(74, -2), Dec(47, -1)>>),
     Fmin |-> Vec(<<Zero, Zero, Num(27), Mul(Num(58), Dec(11, -1))>>)]

\* the EOCC coupler of a preload and a stroke
K1 == Div(Num(100), Sub(Dec(61, -2), Dec(43, -2)))
df1(preload, stroke) == Div(Mul(Div(Mul(Num(10), preload), Num(100)), stroke), Num(28))
dx1(stroke) == Div(Mul(Add(Dec(-15, -1), Dec(62, -2)), stroke), Num(28))
EOCCxmax(preload, stroke) ==
    Vec(<<Zero, Dec(43, -2), Add(Div(preload, K1), Dec(43, -2)), Add(stroke, dx1(stroke)),
          Add(stroke, Dec(62, -2)), Add(stroke, Dec(68, -2))>>)
EOCCFmax(preload, d1) ==
    Vec(<<Zero, Dec(15, -3), preload, Add(preload, d1), Add(Add(preload, d1), Num(25)),
          Add(Add(Add(preload, Num(30)), d1), Num(25))>>)
EOCCTable(xmax, Fmax, mmax, bmax, xintercept) ==
    [ok |-> Gt(xmax[3], xmax[2]), Klocked |-> Num(575), xmax |-> xmax, Fmax |-> Fmax,
     xmin |-> Vec(<<Zero, xintercept, xmax[5]>>),
     Fmin |-> Vec(<<Zero, Add(Mul(Zero, xintercept), Num(1)), Add(Mul(mmax, xmax[5]), bmax)>>)]
EOCCLine(xmax, Fmax, mmax, bmax) ==
    EOCCTable(xmax, Fmax, mmax, bmax, Neg(Div(Sub(bmax, Num(1)), Sub(mmax, Zero))))
EOCCSlope(xmax, Fmax, mmax) ==
    EOCCLine(xmax, Fmax, mmax, Sub(Fmax[4], Mul(mmax, xmax[4])))
EOCC(xmax, Fmax) ==
    EOCCSlope(xmax, Fmax, Div(Sub(Fmax[5], Fmax[4]), Sub(xmax[5], xmax[4])))

CouplerSpec(preload, stroke) ==
    IF preload = Zero THEN Standard
    ELSE EOCC(EOCCxmax(preload, stroke), EOCCFmax(preload, df1(preload, stroke)))

\* all force values of the specs; the displacement at each of them, looked
\* up in the force table made strictly increasing by k*eps
InverseF(spec) ==
    Unique(UNION {Values(spec[i].Fmax) \cup Values(spec[i].Fmin) : i \in DOMAIN spec})
EpsRamp(Fv) == [k \in DOMAIN Fv |-> Add(Fv[k], Mul(Num(k), Eps))]
InverseX(Fe, xv, F) == [k \in DOMAIN F |-> Interp1d(Fe, xv, F[k])]

\* a merge that would take the last coupler type of the group only
SumTypesAs(num, x, k, t) == Mul(Num(num[t]), x[t][k])

\* np.sum(numTypesInGroup[i, :, np.newaxis] * inverse['xmax'], axis=0)[k]
RECURSIVE SumTypes(_, _, _, _)
SumTypes(num, x, k, t) ==
    IF t = 0 THEN Mul(Num(num[0]), x[0][k])
    ELSE Add(SumTypes(num, x, k, t - 1), Mul(Num(num[t]), x[t][k]))

\* np.sum(numTypesInGroup[i, :] / inverse['Klocked'])
RECURSIVE SumCompliance(_, _, _)
SumCompliance(num, K, t) ==
    IF t = 0 THEN Div(Num(num[0]), K[0])
    ELSE Add(SumCompliance(num, K, t - 1), Div(Num(num[t]), K[t]))

Grouped(num, F, xmax, xmin, K) ==
    [raised |-> "", F |-> F, ntype |-> num,
     inverse |-> [F |-> F, xmax |-> xmax, xmin |-> xmin, Klocked |-> K],
     Klocked |-> [i \in DOMAIN num |-> Div(Num(1), SumCompliance(num[i], K, Size(num[i]) - 1))],
     xmax |-> [i \in DOMAIN num |-> [k \in DOMAIN F |-> SumTypes(num[i], xmax, k, Size(num[i]) - 1)]],
     xmin |-> [i \in DOMAIN num |-> [k \in DOMAIN F |-> SumTypes(num[i], xmin, k, Size(num[i]) - 1)]]]
Inverse(num, spec, F) ==
    Grouped(num, F,
            [i \in DOMAIN spec |-> InverseX(EpsRamp(spec[i].Fmax), spec[i].xmax, F)],
            [i \in DOMAIN spec |-> InverseX(EpsRamp(spec[i].Fmin), spec[i].xmin, F)],
            [i \in DOMAIN spec |-> spec[i].Klocked])
Specified(num, spec) ==
    IF \E i \in DOMAIN spec : ~spec[i].ok THEN [raised |-> "AssertionError"]
    ELSE Inverse(num, spec, InverseF(spec))
defineCouplers(num, preloads, strokes) ==
    Specified(num, [i \in DOMAIN preloads |-> CouplerSpec(preloads[i], strokes[i])])

\* unit_conversions
lbf_ == Dec(444822, -5)
kips_ == Mul(Num(1000), lbf_)
in_ == Dec(254, -4)

\* np.concatenate([-np.fliplr(neg[:, 1:]), pos], axis=1) for one group
Mirror(neg, pos) ==
    [j \in 0..(2 * Size(pos) - 2) |->
        IF j < Size(neg) - 1 THEN Neg(neg[Size(neg) - 1 - j]) ELSE pos[j - (Size(neg) - 1)]]

\* x2all and the envelopes interpolated to it, one column per group
Merged(F2, xmax2, xmin2, x2all) ==
    [stage |-> "merged", x2all |-> x2all,
     Fmax2all |-> [r \in DOMAIN x2all |-> [i \in DOMAIN xmax2 |-> Interp1d(xmax2[i], F2, x2all[r])]],
     Fmin2all |-> [r \in DOMAIN x2all |-> [i \in DOMAIN xmin2 |-> Interp1d(xmin2[i], F2, x2all[r])]]]
Mirrored(F2, xmax2, xmin2) ==
    Merged(F2, xmax2, xmin2,
           Unique(UNION {Values(xmax2[i]) \cup Values(xmin2[i]) : i \in DOMAIN xmax2}))
Scaled(F_common, xmax, xmin) ==
    Mirrored(Mirror(F_common, F_common),
             [i \in DOMAIN xmax |-> Mirror(xmin[i], xmax[i])],
             [i \in DOMAIN xmax |-> Mirror(xmax[i], xmin[i])])
EnvelopeTables(grouped) ==
    Scaled(VScale(kips_, grouped.F),
           [i \in DOMAIN grouped.xmax |-> VScale(in_, grouped.xmax[i])],
           [i \in DOMAIN grouped.xmin |-> VScale(in_, grouped.xmin[i])])

\* FastSimM lines 39-48 on these tables
Uniform(T, xu) ==
    [stage |-> "uniform", x2all |-> xu,
     Fmax2all |-> Resample(xu, T.x2all, T.Fmax2all, Size(T.Fmax2all[0])),
     Fmin2all |-> Resample(xu, T.x2all, T.Fmin2all, Size(T.Fmin2all[0]))]

----------------------------------------------------------------------------
(* SpecTables: defineCouplers, the envelope tables, their resampling       *)

MaxGroups == 2       \* largest number of groups handed to defineCouplers

GroupsOf(rows) == UNION {[0..(k - 1) -> rows] : k \in 1..MaxGroups}

\* coupler types as initFastSim finds them (preload in kips, stroke in
\* inches, the draft gear first) and the numbers of each type in a group
OnlyGear ==
    [preloads |-> Vec(<<Zero>>), strokes |-> Vec(<<Zero>>),
     rows |-> {Vec(<<1>>), Vec(<<2>>)}]
GearAndEOCC ==
    [preloads |-> Vec(<<Zero, Num(100)>>), strokes |-> Vec(<<Zero, Num(28)>>),
     rows |-> {Vec(<<1, 0>>), Vec(<<0, 1>>), Vec(<<1, 1>>)}]
ThreeTypes ==
    [preloads |-> Vec(<<Zero, Num(50), Num(100)>>), strokes |-> Vec(<<Zero, Num(28), Num(28)>>),
     rows |-> {Vec(<<2, 0, 0>>), Vec(<<0, 1, 0>>), Vec(<<1, 1, 1>>)}]
ShortStroke ==
    [preloads |-> Vec(<<Zero, Num(100)>>), strokes |-> Vec(<<Zero, Dec(5, -1)>>),
     rows |-> {Vec(<<1, 1>>)}]

TableInputs ==
    UNION {{[stage |-> "initFastSim", num |-> g, preloads |-> c.preloads, strokes |-> c.strokes] :
                g \in GroupsOf(c.rows)} : c \in {OnlyGear, GearAndEOCC, ThreeTypes, ShortStroke}}

InitTables ==
    /\ env \in TableInputs
    /\ grp = None
    /\ ODEIdle /\ SimIdle

\* initFastSim line 156: coupler = defineCouplers(...)
Env_Couplers ==
    /\ env.stage = "initFastSim"
    /\ \E c \in {defineCouplers(env.num, env.preloads, env.strokes)} :
          env' = IF c.raised # "" THEN [stage |-> "raised", exc |-> c.raised]
                 ELSE [stage |-> "coupler", grouped |-> c]
    /\ UNCHANGED <<odeVars, simVars, grp>>

\* initFastSim lines 158-185: x2all, Fmax2all, Fmin2all
Env_Merge ==
    /\ env.stage = "coupler"
    /\ env' = EnvelopeTables(env.grouped)
    /\ UNCHANGED <<odeVars, simVars, grp>>

\* FastSimM lines 39-48: the tables on the uniform grid
Env_Resample ==
    /\ env.stage = "merged"
    /\ env' = Uniform(env, UniformGrid(env.x2all))
    /\ UNCHANGED <<odeVars, simVars, grp>>

NextTables == Env_Couplers \/ Env_Merge \/ Env_Resample

SpecTables == InitTables /\ [][NextTables]_vars

\* the envelope tables have been built or resampled
Tabulated == env # None /\ env.stage \in {"merged", "uniform"}

\* C5: in every envelope table handed to the state derivative, the merged
\* tables of initFastSim and their uniform resampling by FastSimM,
\* Fmax >= Fmin at every grid point and for every group
C5_FmaxAtLeastFmin ==
    Tabulated =>
        \A r \in DOMAIN env.Fmax2all : \A i \in DOMAIN env.Fmax2all[r] :
            Ge(env.Fmax2all[r][i], env.Fmin2all[r][i])

\* ---------------------------------------------------------------------------
\* defineCarGroups: the partition of the vehicle sequence into car groups.
\* Lists are functions over 0..len-1; the entries of cargroup are 1-based
\* vehicle numbers, as in the source.
\* ---------------------------------------------------------------------------

MaxCars == 5

\* np.round of p / q for p >= 0, q > 0: the nearest integer, ties to the even one
RoundRatio(p, q) ==
    IF 2 * (p % q) < q THEN (p \div q)
    ELSE IF 2 * (p % q) > q THEN (p \div q) + 1
    ELSE (p \div q) + ((p \div q) % 2)

\* list[j] of a Python list: a negative index counts from the end
Item(list, j) == IF j < 0 THEN list[Size(list) + j] ELSE list[j]

\* A grouping limit: its Python type, the keys of a dict, the value of a
\* number and the values of the four fields a dict may hold
Number(type, value) ==
    [type |-> type, keys |-> {}, value |-> value,
     norm |-> 0, eocc |-> 0, eocc100 |-> 0, eocc050 |-> 0]
Dict(keys, norm, eocc, eocc100, eocc050) ==
    [type |-> "dict", keys |-> keys, value |-> 0,
     norm |-> norm, eocc |-> eocc, eocc100 |-> eocc100, eocc050 |-> eocc050]

\* dcar after the default for None
Defaulted(dcar) ==
    IF dcar.type = "NoneType" THEN Dict({"norm", "eocc"}, 15, 5, 0, 0) ELSE dcar

\* the ValueError of the type and field checks, "" when dcar is accepted
Rejected(dcar) ==
    IF dcar.type = "dict"
    THEN (IF {"eocc", "norm"} \subseteq dcar.keys
             \/ {"eocc100", "eocc050", "norm"} \subseteq dcar.keys
          THEN "" ELSE "dcar: unexpected fields")
    ELSE IF dcar.type \in {"int", "float"} THEN ""
    ELSE "dcar: unknown type"

\* dcarVec and the rule of the scan: three fields when the dict has eocc100
\* (reading eocc050 too), two fields when it has eocc, a scalar otherwise
Limits(dcar) ==
    IF dcar.type = "dict" /\ "eocc100" \in dcar.keys
    THEN (IF {"norm", "eocc050"} \subseteq dcar.keys
          THEN [raised |-> "", kind |-> "eocc100",
                lim |-> Vec(<<dcar.norm, dcar.eocc100, dcar.eocc050>>)]
          ELSE [raised |-> "KeyError", kind |-> "eocc100", lim |-> Vec(<<>>)])
    ELSE IF dcar.type = "dict"
    THEN [raised |-> "", kind |-> "eocc", lim |-> Vec(<<dcar.norm, dcar.eocc>>)]
    ELSE [raised |-> "", kind |-> "scalar", lim |-> Vec(<<dcar.value>>)]

\* the coupler types the scan compares: exact for three fields, EOCCs folded
\* into 2 for two fields, every positive type folded into 1 for a scalar
ctyp(dcar, couplerTypeIndex) ==
    [i \in DOMAIN couplerTypeIndex |->
        IF dcar.kind = "eocc100" THEN couplerTypeIndex[i]
        ELSE IF dcar.kind = "eocc" THEN (IF couplerTypeIndex[i] > 1 THEN 2 ELSE couplerTypeIndex[i])
        ELSE (IF couplerTypeIndex[i] > 0 THEN 1 ELSE couplerTypeIndex[i])]

group_size_limit(dcar, ct, i) ==
    IF dcar.kind = "scalar" THEN dcar.lim[0] ELSE Item(dcar.lim, ct[i - 1] - 1)

\* a scan that would let a group grow one vehicle past its limit
NewGroupAs(dcar, ct, k, i) == k > group_size_limit(dcar, ct, i) \/ ct[i - 1] # ct[i]

\* vehicle i (0-based) opens a new group
NewGroup(dcar, ct, k, i) == k + 1 > group_size_limit(dcar, ct, i) \/ ct[i - 1] # ct[i]

PutAs(cargroup, kg, v) ==
    IF kg > Size(cargroup)
    THEN [j \in 0..Size(cargroup) |-> IF j < Size(cargroup) THEN cargroup[j] ELSE v - 1]
    ELSE [cargroup EXCEPT ![kg - 1] = v - 1]

\* cargroup.append(v) when group kg is new, cargroup[kg - 1] = v otherwise
Put(cargroup, kg, v) ==
    IF kg > Size(cargroup)
    THEN [j \in 0..Size(cargroup) |-> IF j < Size(cargroup) THEN cargroup[j] ELSE v]
    ELSE [cargroup EXCEPT ![kg - 1] = v]

\* the scan for i in range(i, n0), then cargroup[:kg]
RECURSIVE Scan(_, _, _, _, _, _)
Scan(dcar, ct, i, k, kg, cargroup) ==
    IF i >= Size(ct) THEN [j \in 0..(kg - 1) |-> cargroup[j]]
    ELSE IF NewGroup(dcar, ct, k, i)
         THEN Scan(dcar, ct, i + 1, 1, kg + 1, Put(cargroup, kg + 1, i + 1))
         ELSE Scan(dcar, ct, i + 1, k + 1, kg, Put(cargroup, kg, i + 1))

\* cg0 = [0] + cargroup
cg0(cargroup, j) == IF j = 0 THEN 0 ELSE cargroup[j - 1]

\* i2: the last group of the run of groups that starts at i1 with one coupler type
RunEnd(ct, cargroup, i1) ==
    IF \E j \in (i1 + 1)..(Size(cargroup) - 1) : ct[cargroup[j] - 1] # ct[cargroup[i1] - 1]
    THEN MinOf({j \in (i1 + 1)..(Size(cargroup) - 1) : ct[cargroup[j] - 1] # ct[cargroup[i1] - 1]}) - 1
    ELSE Size(cargroup) - 1

\* tmp[q] = round(linspace(cg0[i1], cg0[i2 + 1], i2 - i1 + 2))[q]
tmp(cargroup, i1, i2, q) ==
    RoundRatio(cg0(cargroup, i1) * (i2 - i1 + 1)
                   + q * (cg0(cargroup, i2 + 1) - cg0(cargroup, i1)),
               i2 - i1 + 1)

\* an equalization that would leave the boundaries of the scan
SpreadAs(cargroup, equalized, i1, i2) == equalized

\* the boundaries inside the run i1..i2 replaced by the evenly spaced ones
Spread(cargroup, equalized, i1, i2) ==
    [j \in DOMAIN equalized |->
        IF i1 <= j /\ j < i2 THEN tmp(cargroup, i1, i2, j - i1 + 1) ELSE equalized[j]]

\* the while loop of -equalizeSize from group i on
RECURSIVE Equalized(_, _, _, _)
Equalized(ct, cargroup, equalized, i) ==
    IF i >= Size(cargroup) - 1 THEN equalized
    ELSE Equalized(ct, cargroup, Spread(cargroup, equalized, i, RunEnd(ct, cargroup, i)),
                   RunEnd(ct, cargroup, i) + 1)

\* the groups of the scan under the limits dcar = [kind, lim]
Scanned(dcar, couplerTypeIndex) ==
    Scan(dcar, ctyp(dcar, couplerTypeIndex), 1, 1, 1, Vec(<<1>>))

\* the list an accepted call returns
defineCarGroups(dcar, couplerTypeIndex, equalizeSize) ==
    IF equalizeSize
    THEN Equalized(ctyp(Limits(Defaulted(dcar)), couplerTypeIndex),
                   Scanned(Limits(Defaulted(dcar)), couplerTypeIndex),
                   Scanned(Limits(Defaulted(dcar)), couplerTypeIndex), 0)
    ELSE Scanned(Limits(Defaulted(dcar)), couplerTypeIndex)

\* ---- the calls checked ----

\* coupler types: 1 = normal, 2 = EOCC 100 kip, 3 = EOCC 50 kip; initFastSim
\* also passes 0, for a car whose CouplerType is neither 0 nor 3
CouplerTypes == 0..3

Trains == UNION {[0..(len - 1) -> CouplerTypes] : len \in 1..MaxCars}

GroupLimits ==
    {Number("int", v) : v \in {0, 1, 2, 3}}
    \cup {Number("float", 2), Number("numpy.int64", 3), Number("NoneType", 0),
          Number("list", 0),
          Dict({"norm", "eocc"}, 3, 2, 0, 0),
          Dict({"norm", "eocc100", "eocc050"}, 3, 0, 2, 1),
          Dict({"norm", "eocc", "eocc100", "eocc050"}, 3, 1, 2, 1),
          Dict({"norm", "eocc", "eocc100"}, 3, 2, 2, 0),
          Dict({"norm", "eocc100"}, 3, 0, 2, 0),
          Dict({"eocc"}, 0, 2, 0, 0)}

InitGroups ==
    /\ grp \in [stage : {"defineCarGroups"}, dcar : GroupLimits,
                couplerTypeIndex : Trains, equalizeSize : BOOLEAN]
    /\ env = None
    /\ ODEIdle /\ SimIdle

\* the default, the type check and the field check
Grp_Check ==
    /\ grp.stage = "defineCarGroups"
    /\ grp' = IF Rejected(Defaulted(grp.dcar)) # ""
              THEN [stage |-> "raised", given |-> grp.dcar, exc |-> "ValueError",
                    msg |-> Rejected(Defaulted(grp.dcar))]
              ELSE [stage |-> "scan", given |-> grp.dcar, dcar |-> Defaulted(grp.dcar),
                    couplerTypeIndex |-> grp.couplerTypeIndex,
                    equalizeSize |-> grp.equalizeSize]
    /\ UNCHANGED <<odeVars, env, simVars>>

\* dcarVec and ctyp, then the left-to-right scan
Grp_Scan ==
    /\ grp.stage = "scan"
    /\ grp' = IF Limits(grp.dcar).raised # ""
              THEN [stage |-> "raised", given |-> grp.given, exc |-> Limits(grp.dcar).raised,
                    msg |-> "eocc050"]
              ELSE [stage |-> "scanned", given |-> grp.given, dcar |-> Limits(grp.dcar),
                    couplerTypeIndex |-> grp.couplerTypeIndex,
                    equalizeSize |-> grp.equalizeSize,
                    ctyp |-> ctyp(Limits(grp.dcar), grp.couplerTypeIndex),
                    cargroup |-> Scanned(Limits(grp.dcar), grp.couplerTypeIndex)]
    /\ UNCHANGED <<odeVars, env, simVars>>

\* the optional equalization, and the return
Grp_Return ==
    /\ grp.stage = "scanned"
    /\ grp' = [stage |-> "returned", given |-> grp.given, dcar |-> grp.dcar,
               couplerTypeIndex |-> grp.couplerTypeIndex, equalizeSize |-> grp.equalizeSize,
               ctyp |-> grp.ctyp, scanned |-> grp.cargroup,
               cargroup |-> IF grp.equalizeSize
                            THEN Equalized(grp.ctyp, grp.cargroup, grp.cargroup, 0)
                            ELSE grp.cargroup]
    /\ UNCHANGED <<odeVars, env, simVars>>

NextGroups == Grp_Check \/ Grp_Scan \/ Grp_Return

SpecGroups == InitGroups /\ [][NextGroups]_vars

\* ---- the returned partition ----

GroupsReturned == grp # None /\ grp.stage = "returned"

\* the vehicles (0-based) of group j of the returned list
Members(j) == cg0(grp.cargroup, j)..(grp.cargroup[j] - 1)

\* C9: the list defineCarGroups returns is strictly increasing, every entry
\* lies in 1..N and the last entry is N, for every accepted limit, with and
\* without -equalizeSize
C9_StrictlyIncreasingToN ==
    GroupsReturned =>
        /\ \A j \in DOMAIN grp.cargroup : grp.cargroup[j] \in 1..Size(grp.couplerTypeIndex)
        /\ \A j \in DOMAIN grp.cargroup : j > 0 => grp.cargroup[j - 1] < grp.cargroup[j]
        /\ Size(grp.cargroup) >= 1
        /\ Last(grp.cargroup) = Size(grp.couplerTypeIndex)

\* an equalized partition of a full-length train that moved a boundary to a tie
C9_EqualizedReturned ==
    /\ GroupsReturned /\ grp.equalizeSize
    /\ Size(grp.couplerTypeIndex) = MaxCars
    /\ grp.cargroup # grp.scanned
    /\ \E j \in DOMAIN grp.cargroup : grp.cargroup[j] < grp.scanned[j]

\* C10: no returned group holds two vehicles that differ under the grouping
\* rule (two fields: normal versus EOCC, three fields: the exact type), and
\* with a scalar limit the groups are those of any train of the same length
C10_GroupsFollowRule ==
    GroupsReturned =>
        /\ grp.dcar.kind = "eocc" =>
              \A j \in DOMAIN grp.cargroup : \A u, w \in Members(j) :
                  (grp.couplerTypeIndex[u] > 1) = (grp.couplerTypeIndex[w] > 1)
        /\ grp.dcar.kind = "eocc100" =>
              \A j \in DOMAIN grp.cargroup : \A u, w \in Members(j) :
                  grp.couplerTypeIndex[u] = grp.couplerTypeIndex[w]
        /\ grp.dcar.kind = "scalar" =>
              grp.cargroup = defineCarGroups(grp.given, VecOf(Size(grp.couplerTypeIndex), 1),
                                             grp.equalizeSize)

\* the same with the vehicle types taken from the documented 1..3
C10_DocumentedTypes ==
    (GroupsReturned /\ \A u \in DOMAIN grp.couplerTypeIndex : grp.couplerTypeIndex[u] >= 1)
        => C10_GroupsFollowRule

\* ---- the shape of the grouping limit ----

\* the limit given is a number, or a dictionary holding the fields of the
\* two-field or of the three-field rule
NumericTypes == {"int", "float", "numpy.int64"}
WellShaped(dcar) ==
    \/ dcar.type \in NumericTypes
    \/ /\ dcar.type = "dict"
       /\ \/ {"norm", "eocc"} \subseteq dcar.keys
          \/ {"norm", "eocc100", "eocc050"} \subseteq dcar.keys

\* C12: defineCarGroups raises ValueError and returns nothing whenever the
\* limit is neither a number nor a dictionary with the fields of a rule, and
\* accepts every number and every dictionary with those fields
C12_ShapeDecidesAcceptance ==
    (grp # None /\ grp.stage \in {"raised", "returned"}) =>
        /\ ~WellShaped(grp.given) => grp.stage = "raised" /\ grp.exc = "ValueError"
        /\ WellShaped(grp.given) => grp.stage = "returned"

\* ---------------------------------------------------------------------------
\* The initial-state option of FastSimM

\* X0 is a string that names neither option, in any case
BadOption ==
    /\ simArgs # None /\ simArgs.X0.kind = "str"
    /\ simArgs.X0.s \notin {"zero", "Zero", "steady-state", "Steady-State"}

\* C11: a string X0 other than 'zero' or 'steady-state' makes FastSimM raise
\* ValueError itself, before ode23simple or FastSimODE is called; nothing of a
\* result exists
C11_BadOptionRaisesFirst ==
    BadOption =>
        /\ pc \in {"FastSimM", "raised"}
        /\ odeIn = None /\ ode = None /\ att = NoAtt /\ log = <<>> /\ Yode = <<>>
        /\ pc = "raised" => exc = Exc("ValueError", "FastSimM")

\* the call with an unknown option has raised
C11_BadOptionRaised == BadOption /\ pc = "raised" /\ exc.type = "ValueError"

\* ---------------------------------------------------------------------------
\* The output rows of ode23simple

nout == Size(odeIn.TOUT) - 1

\* a pass of the loop has just ended: accepted, and recording an output row
PassAccepted == pc = "loop" /\ Len(log') = Len(log) + 1 /\ log'[Len(log')].pass = "accepted"
PassRejected == pc = "loop" /\ Len(log') = Len(log) + 1 /\ log'[Len(log')].pass = "rejected"
Recording == PassAccepted /\ att'.attout

\* the pass wrote row knext with the time it landed on, TOUT[knext] exactly,
\* left the other rows alone and moved on to the next row; after the last row
\* the loop is over
RowLanded ==
    /\ ode'.t = odeIn.TOUT[ode.knext]
    /\ ode'.tout[ode.knext] = ode'.t /\ ode'.xout[ode.knext] = ode'.x
    /\ \A k \in DOMAIN ode.tout :
           (k # ode.knext) => (ode'.tout[k] = ode.tout[k] /\ ode'.xout[k] = ode.xout[k])
    /\ IF ode.knext < nout THEN ode'.knext = ode.knext + 1
       ELSE ode'.knext = nout /\ ~Lt(ode'.t, tEnd)

RowsKept == ode'.tout = ode.tout /\ ode'.xout = ode.xout /\ ode'.knext = ode.knext

\* C13: a requested output time TOUT[k], k >= 1, is recorded only by an
\* accepted step that lands on it exactly, in increasing order of k and never
\* twice; t never passes the next unrecorded time; a successful run has
\* recorded every row, with strictly increasing times
C13_RowsRecordedInOrder ==
    /\ [][(Recording => RowLanded)
           /\ ((PassAccepted \/ PassRejected) /\ ~Recording => RowsKept)
           /\ ((PassAccepted \/ PassRejected) => Le(ode'.t, odeIn.TOUT[ode.knext]))]_vars
    /\ []((pc \in {"returned", "done"} /\ ode.stats.err = 0) =>
             (/\ ode.tout = odeIn.TOUT /\ ode.t = tEnd /\ ode.knext = nout
              /\ \A k \in DOMAIN ode.tout : (k > 0) => Lt(ode.tout[k - 1], ode.tout[k])))

\* ---------------------------------------------------------------------------
\* The rope-force lookup of FastSimODE

Called == odeRet # None

\* round((t - T[0])/dt) brought into 0..len(T)-1
NearestSample ==
    MaxOf({0, MinOf({Size(odeArgs.T) - 1,
                     RoundHalfEven(Div(Sub(odeArgs.t, odeArgs.T[0]),
                                       Sub(odeArgs.T[1], odeArgs.T[0])))})})

\* C14: for every time t, before the first and after the last sample of T
\* included, the lookup reads the row of FROPE nearest to t and raises no
\* IndexError
C14_RopeRowAlwaysValid ==
    Called =>
        /\ odeRet.raised # "IndexError"
        /\ odeRet.raised = "" => odeRet.Frope = odeArgs.FROPE[NearestSample]

\* ---------------------------------------------------------------------------
\* Malformed states

\* some displacement DX[i] of the state is NaN or infinite
BadDisplacement ==
    \E i \in 0..(odeArgs.n - 1) : odeArgs.X[i + 2 * odeArgs.n][3] = 0

\* C15: on a state with a non-finite displacement FastSimODE does not raise:
\* it returns a derivative vector with a non-finite component
C15_NonFinitePropagates ==
    (Called /\ BadDisplacement) =>
        /\ odeRet.raised = ""
        /\ \E j \in DOMAIN odeRet.Xdot : odeRet.Xdot[j][3] = 0

\* what the caller handed to FastSimM, and what ode23simple was handed, stay
\* as they were while the call runs
InputsKept ==
    /\ simArgs' = simArgs
    /\ odeIn # None => (odeIn' = odeIn \/ (odeIn' = None /\ pc' = "FastSimM"))
    /\ odeIn' # None =>
          /\ odeIn'.T = simArgs.T /\ odeIn'.FROPE = simArgs.Frope
          /\ odeIn'.b = simArgs.b /\ odeIn'.c = simArgs.c /\ odeIn'.M = simArgs.M
          /\ odeIn'.Klocked = simArgs.Klocked /\ odeIn'.Kawu = simArgs.Kawu
          /\ simArgs.X0.kind = "num" /\ Size(simArgs.X0.v) = 3 * simArgs.n
                => odeIn'.x0 = simArgs.X0.v

\* row k of tout and xout holds a recorded sample: the rows below knext, and
\* the row at knext once the time written there is the current time
Written(k) == k < ode.knext \/ (k = ode.knext /\ ode.tout[k] = ode.t)

RowsFrozen ==
    (PassAccepted \/ PassRejected) =>
        \A k \in DOMAIN ode.tout :
            Written(k) => ode'.tout[k] = ode.tout[k] /\ ode'.xout[k] = ode.xout[k]

\* C16: a run never writes to its inputs (T, Frope, b, c, M, the envelope
\* tables, Klocked, Kawu, an explicit X0 vector), and a pass of the integrator
\* never changes a row of tout or xout that an earlier pass recorded
C16_InputsAndRowsKept == [][InputsKept /\ RowsFrozen]_vars

SteadyOption ==
    simArgs.X0.kind = "str" /\ simArgs.X0.s \in {"steady-state", "Steady-State"}

\* [F1; DV; DX] as lines 74-77 of FastSimM compute it
RawSteady ==
    Concat3(simArgs.n, simArgs.Frope[0], VScale(Zero, simArgs.Frope[0]),
            ssCouplerDisplacement(simArgs.x2all, simArgs.Fmin2all,
                                  simArgs.Fmax2all, simArgs.Frope))

\* C17: with X0 = 'steady-state' the initial state handed to the integrator
\* is the computed [F1; DV; DX] with every NaN, +Inf and -Inf component
\* replaced by zero
C17_NonFiniteDefaultsToZero ==
    (SteadyOption /\ odeIn # None) =>
        \A j \in DOMAIN odeIn.x0 :
            odeIn.x0[j] = IF RawSteady[j][3] = 0 THEN Zero ELSE RawSteady[j]

\* a pass through the loop body is made in this step
PassMade == PassAccepted \/ PassRejected \/ (pc = "loop" /\ pc' = "raised")

\* the time, the state, the stored slope and the recorded outputs stay
StateKept ==
    /\ ode'.t = ode.t /\ ode'.x = ode.x /\ ode'.s1 = ode.s1 /\ ode'.tnext = ode.tnext
    /\ RowsKept

\* C18: a rejected attempt (error estimate not within the tolerance, NaN
\* included) leaves t, x, the stored first-stage slope and the recorded
\* outputs as they were, and the attempt that follows it uses a strictly
\* smaller step size
C18_RejectionRetriesSmaller ==
    [][/\ PassRejected => StateKept
       /\ (PassMade /\ att.kind = "rejected") => Lt(att'.h, att.h)]_vars

\* the step size of this pass before it is adjusted to the next output time
Clamped == ClampStep(ode.h, HMin(ode.t), HMax(odeIn.TOUT))

\* the step size the stages of this pass were evaluated with lies in the
\* bounds of this pass
StepInBounds ==
    /\ att'.hmin = Mul(Mul(Num(16), Eps), Abs(ode.t))
    /\ att'.hmax = Mul(Dec(1, -1), Sub(tEnd, odeIn.TOUT[0]))
    /\ Le(att'.hmin, att'.h) /\ Le(att'.h, att'.hmax)

\* C19: every attempt evaluates its stages with hmin <= h <= hmax, where
\* hmin = 16*eps*|t| and hmax = 0.1*(tEnd - t0), and landing on the next
\* output time never makes the step larger than the clamped one
C19_StepWithinBounds ==
    [][PassMade => StepInBounds /\ (att'.attout => Le(att'.h, Clamped))]_vars

\* the passes of this call that took each branch, and the step sizes of the
\* accepted ones
Passes(kind) == {j \in DOMAIN log : log[j].pass = kind}
AcceptedSteps == {log[j].h : j \in Passes("accepted")}

\* C20: when ode23simple has returned, nsteps counts the accepted attempts,
\* nfailed the rejected ones, and stats.hmin and stats.hmax are the smallest
\* and the largest step size of the accepted attempts
C20_StatsDescribeSteps ==
    (pc \in {"returned", "done"}) =>
        /\ ode.stats.nsteps = Cardinality(Passes("accepted"))
        /\ ode.stats.nfailed = Cardinality(Passes("rejected"))
        /\ AcceptedSteps # {} =>
              /\ ode.stats.hmin \in AcceptedSteps /\ ode.stats.hmax \in AcceptedSteps
              /\ \A h \in AcceptedSteps : Le(ode.stats.hmin, h) /\ Le(h, ode.stats.hmax)

\* ---------------------------------------------------------------------
\* The stored first-stage slope
\* ---------------------------------------------------------------------

\* the state derivative at the current point of the integration
SlopeHere == Slope(odeIn, ode.t, ode.x)

\* C21: whenever an attempt of ode23simple starts, the stored slope s1 is the
\* state derivative at the current (t, x): an accepted pass replaces it by
\* the evaluation at the new point, a rejected pass keeps it, and a pass
\* that reaches the error estimate has called FastSimODE three times
C21_StoredSlopeIsCurrent ==
    [](pc = "loop" => SlopeHere.raised = "" /\ ode.s1 = SlopeHere.Xdot)
    /\ [][/\ PassAccepted => ode'.s1 = att'.s4 /\ att'.evals = 3
          /\ PassRejected => ode'.s1 = ode.s1 /\ att'.evals = 3]_vars

\* an attempt is about to start after an accepted and a rejected pass, on a
\* slope that is not zero
C21_SlopeCarriedOver ==
    /\ pc = "loop" /\ Lt(ode.t, tEnd)
    /\ Passes("accepted") # {} /\ Passes("rejected") # {}
    /\ \E j \in DOMAIN ode.s1 : ode.s1[j] # Zero

\* ---------------------------------------------------------------------
\* The failure flag
\* ---------------------------------------------------------------------

OdeReturned == pc \in {"returned", "done"}

\* C22: when ode23simple returns with stats.err = 1 the integration stopped
\* early: t < tEnd and the last requested output time has no recorded row;
\* a run that reached tEnd returns with stats.err = 0
C22_FlagOnlyOnEarlyStop ==
    OdeReturned =>
        /\ ode.stats.err = 1 => (Lt(ode.t, tEnd) /\ ~Written(nout))
        /\ ~Lt(ode.t, tEnd) => ode.stats.err = 0

\* ---------------------------------------------------------------------
\* The envelope lookup of FastSimODE, checked under SpecODE
\* ---------------------------------------------------------------------

\* the displacement of group i in the state of the call, and the table grid
DXof(i) == odeArgs.X[i + 2 * odeArgs.n]
mTable == Size(odeArgs.x2all)
dxTable == Sub(odeArgs.x2all[1], odeArgs.x2all[0])

\* the line through the table points k and k+1 of group i, taken at x
OnSegment(tab, k, i, x) ==
    Add(tab[k][i],
        Mul(Div(Sub(tab[k + 1][i], tab[k][i]), dxTable), Sub(x, odeArgs.x2all[k])))

Below(i) == Lt(DXof(i), odeArgs.x2all[0])
Above(i) == Gt(DXof(i), odeArgs.x2all[mTable - 1])

\* C23: for a displacement below x2all[0] or above x2all[m-1] the returned
\* Fmin[i] and Fmax[i] lie on the line through the first, respectively the
\* last, table segment: the boundary segment extrapolated to DX[i]
C23_ExtrapolatesBoundarySegment ==
    Returned =>
        \A i \in 0..(odeArgs.n - 1) :
            /\ Below(i) =>
                  /\ odeRet.Fmin[i] = OnSegment(odeArgs.Fmin2all, 0, i, DXof(i))
                  /\ odeRet.Fmax[i] = OnSegment(odeArgs.Fmax2all, 0, i, DXof(i))
            /\ Above(i) =>
                  /\ odeRet.Fmin[i] = OnSegment(odeArgs.Fmin2all, mTable - 2, i, DXof(i))
                  /\ odeRet.Fmax[i] = OnSegment(odeArgs.Fmax2all, mTable - 2, i, DXof(i))

\* the table segment that brackets a displacement inside the grid
Segment(x) ==
    MinOf({mTable - 2, MaxOf({k \in 0..(mTable - 1) : Le(odeArgs.x2all[k], x)})})
Inside(i) == ~Below(i) /\ ~Above(i) /\ DXof(i)[3] = 1

\* C24: for a displacement inside the grid the returned Fmin[i] and Fmax[i]
\* are the linear interpolation between the two bracketing table points, and
\* on a grid point x2all[k], the first and the last included, they are the
\* tabulated Fmin2all[k,i] and Fmax2all[k,i]
C24_InterpolatesInsideGrid ==
    Returned =>
        \A i \in 0..(odeArgs.n - 1) :
            /\ Inside(i) =>
                  /\ odeRet.Fmin[i] = OnSegment(odeArgs.Fmin2all, Segment(DXof(i)), i, DXof(i))
                  /\ odeRet.Fmax[i] = OnSegment(odeArgs.Fmax2all, Segment(DXof(i)), i, DXof(i))
            /\ \A k \in 0..(mTable - 1) :
                  DXof(i) = odeArgs.x2all[k] =>
                      /\ odeRet.Fmin[i] = odeArgs.Fmin2all[k][i]
                      /\ odeRet.Fmax[i] = odeArgs.Fmax2all[k][i]

\* ---------------------------------------------------------------------
\* The realized force and the derivatives of FastSimODE
\* ---------------------------------------------------------------------

F1of(i) == odeArgs.X[i]
DVof(i) == odeArgs.X[i + odeArgs.n]
Groups == 0..(odeArgs.n - 1)
Ordered(i) == Le(odeRet.Fmin[i], odeRet.Fmax[i])
WithinEnvelope(i) == Le(odeRet.Fmin[i], odeRet.F[i]) /\ Le(odeRet.F[i], odeRet.Fmax[i])

\* C25 as stated: F is F1 inside the envelope, Fmin below it and Fmax above
\* it, hence Fmin <= F <= Fmax whenever Fmin <= Fmax
C25_SaturatedToEnvelope ==
    Returned =>
        \A i \in Groups :
            /\ (Le(odeRet.Fmin[i], F1of(i)) /\ Le(F1of(i), odeRet.Fmax[i]))
                  => odeRet.F[i] = F1of(i)
            /\ Lt(F1of(i), odeRet.Fmin[i]) => odeRet.F[i] = odeRet.Fmin[i]
            /\ Gt(F1of(i), odeRet.Fmax[i]) => odeRet.F[i] = odeRet.Fmax[i]
            /\ Ordered(i) => WithinEnvelope(i)

\* C25 (amended): F is Fmin when F1 < Fmin, otherwise Fmax when F1 > Fmax,
\* otherwise F1; hence Fmin <= F <= Fmax whenever Fmin <= Fmax and F1 is
\* not NaN
C25_SaturatedUnlessNaN ==
    Returned =>
        \A i \in Groups :
            /\ Lt(F1of(i), odeRet.Fmin[i]) => odeRet.F[i] = odeRet.Fmin[i]
            /\ (~Lt(F1of(i), odeRet.Fmin[i]) /\ Gt(F1of(i), odeRet.Fmax[i]))
                  => odeRet.F[i] = odeRet.Fmax[i]
            /\ (~Lt(F1of(i), odeRet.Fmin[i]) /\ ~Gt(F1of(i), odeRet.Fmax[i]))
                  => odeRet.F[i] = F1of(i)
            /\ (Ordered(i) /\ ~IsNaN(F1of(i))) => WithinEnvelope(i)

\* a call that limited one force state from below and another from above
C25_BothLimitsApplied ==
    /\ Returned
    /\ \E i, j \in Groups :
          /\ Ordered(i) /\ Lt(F1of(i), odeRet.Fmin[i]) /\ odeRet.F[i] = odeRet.Fmin[i]
          /\ Ordered(j) /\ Gt(F1of(j), odeRet.Fmax[j]) /\ odeRet.F[j] = odeRet.Fmax[j]

\* e[j] = F[j] - Frope[j] + b[j]*DV[j] + c[j]*DV[j]*DX[j]*F[j] and the
\* accelerations a[0] = e[0]/M[0], a[j] = (e[j] - e[j-1])/M[j] of the call
eOf(j) ==
    Add(Add(Sub(odeRet.F[j], odeRet.Frope[j]), Mul(odeArgs.b[j], DVof(j))),
        Mul(Mul(Mul(odeArgs.c[j], DVof(j)), DXof(j)), odeRet.F[j]))
aOf(j) ==
    IF j = 0 THEN Div(eOf(0), odeArgs.M[0])
    ELSE Div(Sub(eOf(j), eOf(j - 1)), odeArgs.M[j])

\* C26: for n >= 2 and every group i < n-1 the returned derivative of the
\* relative velocity is the acceleration difference across the coupler,
\* Xdot[i+n] = a[i+1] - a[i]
C26_DVdotIsAccelDifference ==
    (Returned /\ odeArgs.n >= 2) =>
        \A i \in 0..(odeArgs.n - 2) :
            odeRet.Xdot[i + odeArgs.n] = Sub(aOf(i + 1), aOf(i))

\* C27: for every group i, the last included, the returned derivative of the
\* force state is Xdot[i] = Klocked[i]*DV[i] + Kawu[i]*(F[i] - F1[i]), and
\* the anti-windup term Kawu[i]*(F[i] - F1[i]) is zero exactly when F1[i]
\* lies within [Fmin[i], Fmax[i]]
C27_F1dotIsLockedPlusAntiWindup ==
    Returned =>
        \A i \in Groups :
            /\ odeRet.Xdot[i] =
                  Add(Mul(odeArgs.Klocked[i], DVof(i)),
                      Mul(odeArgs.Kawu[i], Sub(odeRet.F[i], F1of(i))))
            /\ Mul(odeArgs.Kawu[i], Sub(odeRet.F[i], F1of(i))) = Zero
                  <=> (Le(odeRet.Fmin[i], F1of(i)) /\ Le(F1of(i), odeRet.Fmax[i]))

\* ---------------------------------------------------------------------
\* Group sizes of defineCarGroups, checked under SpecGroups
\* ---------------------------------------------------------------------

\* the vehicles carry the documented coupler types 1 = normal, 2 = EOCC
\* 100 kip, 3 = EOCC 50 kip
Documented == \A u \in DOMAIN grp.couplerTypeIndex : grp.couplerTypeIndex[u] \in 1..3

\* the coupler type of the vehicles of group j, its size, and the limit the
\* usage comment gives for that type
TypeOfGroup(j) == grp.couplerTypeIndex[grp.cargroup[j] - 1]
SizeOfGroup(j) == grp.cargroup[j] - cg0(grp.cargroup, j)
LimitOfGroup(j) ==
    IF grp.dcar.kind = "scalar" THEN grp.dcar.lim[0]
    ELSE IF grp.dcar.kind = "eocc"
         THEN (IF TypeOfGroup(j) = 1 THEN grp.dcar.lim[0] ELSE grp.dcar.lim[1])
         ELSE grp.dcar.lim[TypeOfGroup(j) - 1]

\* groups j and j+1 hold couplers the grouping rule does not tell apart
SameRule(j) ==
    IF grp.dcar.kind = "scalar" THEN TRUE
    ELSE IF grp.dcar.kind = "eocc" THEN (TypeOfGroup(j) = 1) = (TypeOfGroup(j + 1) = 1)
    ELSE TypeOfGroup(j) = TypeOfGroup(j + 1)

LimitsAtLeastOne == \A q \in DOMAIN grp.dcar.lim : grp.dcar.lim[q] >= 1

TypeChangeAfter(j) ==
    j = Size(grp.scanned) - 1
        \/ grp.ctyp[grp.scanned[j] - 1] # grp.ctyp[grp.scanned[j + 1] - 1]

\* groups j <= q of the scan belong to one run of same-type groups
SameRun(j, q) == \A r \in j..(q - 1) : ~TypeChangeAfter(r)

\* C29: -equalizeSize keeps the number of groups, the final boundary and
\* every boundary at a change of coupler type; it moves only boundaries
\* inside a run of same-type groups, and afterwards the sizes of the groups
\* of a run differ by at most one vehicle
C29_EqualizeWithinRuns ==
    (GroupsReturned /\ grp.equalizeSize) =>
        /\ Size(grp.cargroup) = Size(grp.scanned)
        /\ \A j \in DOMAIN grp.scanned :
              TypeChangeAfter(j) => grp.cargroup[j] = grp.scanned[j]
        /\ \A j, q \in DOMAIN grp.scanned :
              (j <= q /\ SameRun(j, q)) =>
                  /\ SizeOfGroup(j) - SizeOfGroup(q) <= 1
                  /\ SizeOfGroup(q) - SizeOfGroup(j) <= 1

\* an equalized grouping that moved a boundary inside a run and kept a
\* boundary at a type change before the last group
C29_RunEvenedOut ==
    /\ GroupsReturned /\ grp.equalizeSize
    /\ \E j, q \in 0..(Size(grp.scanned) - 2) :
          /\ ~TypeChangeAfter(j) /\ grp.cargroup[j] # grp.scanned[j]
          /\ TypeChangeAfter(q) /\ grp.cargroup[q] = grp.scanned[q]

\* defineCouplers has returned its grouped tables
CouplersMerged == env # None /\ env.stage = "coupler"

\* the per-type displacements x at force level k, each times its count in
\* the group, added type by type
SeriesSum(num, x, k) ==
    IF Size(num) = 1 THEN Mul(Num(num[0]), x[0][k])
    ELSE IF Size(num) = 2
         THEN Add(Mul(Num(num[0]), x[0][k]), Mul(Num(num[1]), x[1][k]))
         ELSE Add(Add(Mul(Num(num[0]), x[0][k]), Mul(Num(num[1]), x[1][k])),
                  Mul(Num(num[2]), x[2][k]))

\* the per-type compliances count / K of a group, added type by type
SeriesCompliance(num, K) ==
    IF Size(num) = 1 THEN Div(Num(num[0]), K[0])
    ELSE IF Size(num) = 2
         THEN Add(Div(Num(num[0]), K[0]), Div(Num(num[1]), K[1]))
         ELSE Add(Add(Div(Num(num[0]), K[0]), Div(Num(num[1]), K[1])),
                  Div(Num(num[2]), K[2]))

\* group i holds couplers of type t only
OneType(i, t) ==
    /\ env.grouped.ntype[i][t] > 0
    /\ \A u \in DOMAIN env.grouped.ntype[i] : u # t => env.grouped.ntype[i][u] = 0

\* a and b agree to the last digit but one
NearlyEqual(a, b) == Le(Abs(Sub(a, b)), Mul(Eps, Abs(b)))

\* a group of k couplers of type t: k times the displacement, stiffness K / k
ScaledByCount(i, t) ==
    /\ \A k \in DOMAIN env.grouped.F :
          /\ env.grouped.xmax[i][k]
                = Mul(Num(env.grouped.ntype[i][t]), env.grouped.inverse.xmax[t][k])
          /\ env.grouped.xmin[i][k]
                = Mul(Num(env.grouped.ntype[i][t]), env.grouped.inverse.xmin[t][k])
    /\ NearlyEqual(env.grouped.Klocked[i],
                   Div(env.grouped.inverse.Klocked[t], Num(env.grouped.ntype[i][t])))

\* C30: defineCouplers merges the couplers of a group as springs in series:
\* at every common force level the group's xmax and xmin are the sum over
\* the coupler types of count times that type's displacement at that force,
\* the group's locked stiffness is 1 / sum(count_i / K_i), and a group of k
\* couplers of one type has k times the single-coupler displacement and
\* the stiffness K / k
C30_SpringsInSeries ==
    CouplersMerged =>
        /\ env.grouped.F = env.grouped.inverse.F
        /\ \A i \in DOMAIN env.grouped.ntype :
              /\ \A k \in DOMAIN env.grouped.F :
                    /\ env.grouped.xmax[i][k]
                          = SeriesSum(env.grouped.ntype[i], env.grouped.inverse.xmax, k)
                    /\ env.grouped.xmin[i][k]
                          = SeriesSum(env.grouped.ntype[i], env.grouped.inverse.xmin, k)
              /\ env.grouped.Klocked[i]
                    = Div(Num(1), SeriesCompliance(env.grouped.ntype[i], env.grouped.inverse.Klocked))
              /\ \A t \in DOMAIN env.grouped.ntype[i] : OneType(i, t) => ScaledByCount(i, t)

\* grouped tables with a group of two couplers of the first type, whose
\* displacement is not zero at some force, and a group of several types
C30_PairAndMixedGroup ==
    /\ CouplersMerged
    /\ \E i \in DOMAIN env.grouped.ntype :
          /\ OneType(i, 0) /\ env.grouped.ntype[i][0] = 2
          /\ \E k \in DOMAIN env.grouped.F : Gt(env.grouped.xmax[i][k], Zero)
    /\ \E i \in DOMAIN env.grouped.ntype :
          \A t \in DOMAIN env.grouped.ntype[i] : env.grouped.ntype[i][t] = 1
    /\ Size(env.grouped.inverse.Klocked) = 3
====
